---- MODULE Spec2Model ----
(***************************************************************************)
(* ugreen_leds_ethutild: the LED command codec, the LED controller and the *)
(* LED state manager, as state machines over the I2C transactions issued.  *)
(*                                                                         *)
(* Every operation is one action.  An operation's bus traffic is recorded  *)
(* in `trace` (the transactions and dwell delays of the last operation, in *)
(* program order); `call` records which operation ran, with its arguments  *)
(* and its return value.  The transport is the environment: it decides the *)
(* result of every transaction.                                            *)
(***************************************************************************)
EXTENDS Integers, Sequences, FiniteSets, TLC

VARIABLES
    _current_state,     \* led_state_manager_t::_current_state
    _brightness,        \* led_state_manager_t::_brightness (config.brightness)
    _low_threshold,     \* led_state_manager_t::_low_threshold
    _medium_threshold,  \* led_state_manager_t::_medium_threshold
    _high_threshold,    \* led_state_manager_t::_high_threshold
    rx,                 \* the bytes the device answers to a block read
    pc,                 \* the caller: "ready" to call, "done" after a single call
    call,               \* the last operation: [op, args, ret]
    trace,              \* bus transactions and delays of the last operation
    _capacity_mbps,     \* bandwidth_monitor_t::_capacity_mbps
    _last_stats,        \* bandwidth_monitor_t::_last_stats (the baseline)
    _initialized,       \* bandwidth_monitor_t::_initialized
    clock,              \* std::chrono::steady_clock, in milliseconds
    calls,              \* number of get_bandwidth_usage calls made so far
    consecutive_failures, \* run_normal_mode's counter of invalid readings in a row
    g_running,          \* the flag the signal handler clears
    leds,               \* what the accepted writes have left on each LED
    current_state,      \* run_testing_mode's index into test_states
    success             \* main's bool success

\* the state manager's configuration, fixed by its constructor
cfg == <<_brightness, _low_threshold, _medium_threshold, _high_threshold>>

\* the bandwidth monitor's fields
mon == <<_capacity_mbps, _last_stats, _initialized>>

\* the main program's loop state
loop == <<consecutive_failures, g_running>>

\* the LED board, the testing loop and main's result
prog == <<leds, current_state, success>>

vars == <<_current_state, cfg, rx, pc, call, trace, mon, clock, calls, loop, prog>>

----------------------------------------------------------------------------
(* Types and constants of led_controller.h / led_state_manager.h *)

power == 0
netdev == 1
disk1 == 2
disk2 == 3
led_type_t == 0..9

LEDCTL_LED_POWER == power
LEDCTL_LED_NETDEV == netdev
LEDCTL_LED_DISK1 == disk1
LEDCTL_LED_DISK2 == disk2

COLOR_WHITE == [r |-> 255, g |-> 255, b |-> 255]
COLOR_GREEN == [r |-> 0, g |-> 255, b |-> 0]
COLOR_BLUE == [r |-> 0, g |-> 0, b |-> 255]
COLOR_RED == [r |-> 255, g |-> 0, b |-> 0]
COLOR_OFF == [r |-> 0, g |-> 0, b |-> 0]

led_state_t == {"UTILIZATION_OFF", "NETDEV_GREEN", "NETDEV_DISK1_BLUE", "ALL_UTILIZATION_RED"}

DEFAULT_BRIGHTNESS == 255

\* std::optional<uint8_t>: the empty sequence is nullopt
nullopt == <<>>
some(v) == <<v>>
value_or(o, d) == IF Len(o) = 0 THEN d ELSE o[1]

----------------------------------------------------------------------------
(* double: the values the program computes are non-negative, so a double  *)
(* is modelled as the exact fraction <<n, d>> in lowest terms, with        *)
(* <<1, 0>> for +infinity and <<0, 0>> for NaN (rounding is not modelled). *)

RECURSIVE GCD(_, _)
GCD(a, b) == IF b = 0 THEN a ELSE GCD(b, a % b)

Rat(n, d) == LET g == GCD(n, d) IN <<n \div g, d \div g>>

Zero == <<0, 1>>
Infinity == <<1, 0>>
NaN == <<0, 0>>

\* a + b
Plus(a, b) ==
    IF a = NaN \/ b = NaN THEN NaN
    ELSE IF a = Infinity \/ b = Infinity THEN Infinity
    ELSE LET l == (a[2] \div GCD(a[2], b[2])) * b[2]
         IN  Rat(a[1] * (l \div a[2]) + b[1] * (l \div b[2]), l)

\* a * b
Times(a, b) ==
    IF a = NaN \/ b = NaN THEN NaN
    ELSE IF a = Infinity \/ b = Infinity
         THEN (IF a = Zero \/ b = Zero THEN NaN ELSE Infinity)
    ELSE LET g1 == GCD(a[1], b[2])
             g2 == GCD(b[1], a[2])
         IN  Rat((a[1] \div g1) * (b[1] \div g2), (a[2] \div g2) * (b[2] \div g1))

\* a / b
Over(a, b) ==
    IF a = NaN \/ b = NaN THEN NaN
    ELSE IF b = Infinity THEN (IF a = Infinity THEN NaN ELSE Zero)
    ELSE IF a = Infinity THEN Infinity
    ELSE IF b = Zero THEN (IF a = Zero THEN NaN ELSE Infinity)
    ELSE Times(a, <<b[2], b[1]>>)

\* a < b (false when either is NaN)
Less(a, b) ==
    IF a = NaN \/ b = NaN THEN FALSE
    ELSE IF a = Infinity THEN FALSE
    ELSE IF b = Infinity THEN TRUE
    ELSE a[1] * b[2] < b[1] * a[2]

----------------------------------------------------------------------------
(* The transport (i2c_device_t) and the trace of its transactions.  Every  *)
(* operation below maps the trace so far to the SET of its possible        *)
(* outcomes [t |-> extended trace, r |-> return value]: one outcome for    *)
(* each way the transport can answer the transactions the operation makes. *)

Event(k, addr, data, res) == [k |-> k, addr |-> addr, data |-> data, res |-> res]

IsWrite(e) == e.k = "write"

\* what a transport write can return: 0 on success, non-zero on failure
WriteResults == {0, -1}

\* _i2c.write_block_data(command, data): one blocking transaction, no retry
write_block_data(t, addr, data) ==
    { [t |-> Append(t, Event("write", addr, data, res)), r |-> res] : res \in WriteResults }

\* _i2c.read_block_data(command, size) answered with data: one transaction
read_block_data(t, addr, size, data) == Append(t, Event("read_block", addr, data, size))

\* usleep(us)
usleep(t, us) == Append(t, Event("usleep", 0, <<>>, us))

----------------------------------------------------------------------------
(* Command codec *)

RECURSIVE SumFirst(_, _)
SumFirst(data, n) == IF n = 0 THEN 0 ELSE SumFirst(data, n - 1) + data[n]

\* compute_checksum whose loop stops one byte early
compute_checksum_one_short(data, size) ==
    IF size < 2 \/ size > Len(data) THEN 0 ELSE SumFirst(data, size - 1)

compute_checksum(data, size) ==
    IF size < 2 \/ size > Len(data) THEN 0 ELSE SumFirst(data, size)

\* verify_checksum without the non-zero requirement
verify_checksum_accepts_zero(data) ==
    LET size == Len(data) IN
    IF size < 2 THEN FALSE
    ELSE LET sum == compute_checksum(data, size - 2)
         IN  sum = data[size] + 256 * data[size - 1]

verify_checksum(data) ==
    LET size == Len(data) IN
    IF size < 2 THEN FALSE
    ELSE LET sum == compute_checksum(data, size - 2)
         IN  sum # 0 /\ sum = data[size] + 256 * data[size - 1]

\* append_checksum writing the low byte first
append_checksum_little_endian(data) ==
    LET sum == compute_checksum(data, Len(data))
    IN  data \o <<sum % 256, (sum \div 256) % 256>>

append_checksum(data) ==
    LET sum == compute_checksum(data, Len(data))
    IN  data \o <<(sum \div 256) % 256, sum % 256>>

\* the frame _change_status builds before it stores the LED id in byte 0
build_command(command, params) ==
    append_checksum(<<0, 160, 1, 0, 0, command,
                      value_or(params[1], 0), value_or(params[2], 0),
                      value_or(params[3], 0), value_or(params[4], 0)>>)

----------------------------------------------------------------------------
(* LED controller *)

\* _change_status storing the LED id before the checksum is computed
_change_status_id_first(t, id, command, params) ==
    LET data == <<id, 160, 1, 0, 0, command,
                  value_or(params[1], 0), value_or(params[2], 0),
                  value_or(params[3], 0), value_or(params[4], 0)>>
    IN  write_block_data(t, id, append_checksum(data))

_change_status(t, id, command, params) ==
    LET data == build_command(command, params)
    IN  write_block_data(t, id, [data EXCEPT ![1] = id])

\* set_onoff passing every status byte on to the device
set_onoff_unchecked(t, id, status) ==
    _change_status(t, id, 3, <<some(status), nullopt, nullopt, nullopt>>)

set_onoff(t, id, status) ==
    IF status >= 2 THEN {[t |-> t, r |-> -1]}
    ELSE _change_status(t, id, 3, <<some(status), nullopt, nullopt, nullopt>>)

set_rgb(t, id, r, g, b) ==
    _change_status(t, id, 2, <<some(r), some(g), some(b), nullopt>>)

\* set_brightness sending the set-color opcode
set_brightness_wrong_opcode(t, id, brightness) ==
    _change_status(t, id, 2, <<some(brightness), nullopt, nullopt, nullopt>>)

set_brightness(t, id, brightness) ==
    _change_status(t, id, 1, <<some(brightness), nullopt, nullopt, nullopt>>)

\* _set_blink_or_breath holding t_hight at 65535 when t_on + t_off exceeds it
_set_blink_or_breath_saturating(t, command, id, t_on, t_off) ==
    LET t_hight == IF t_on + t_off > 65535 THEN 65535 ELSE t_on + t_off
        t_low == t_on
    IN  _change_status(t, id, command,
                       <<some(t_hight \div 256), some(t_hight % 256),
                         some(t_low \div 256), some(t_low % 256)>>)

\* _set_blink_or_breath sending t_low in p0,p1 and t_hight in p2,p3
_set_blink_or_breath_low_first(t, command, id, t_on, t_off) ==
    LET t_hight == (t_on + t_off) % 65536
        t_low == t_on
    IN  _change_status(t, id, command,
                       <<some(t_low \div 256), some(t_low % 256),
                         some(t_hight \div 256), some(t_hight % 256)>>)

_set_blink_or_breath(t, command, id, t_on, t_off) ==
    LET t_hight == (t_on + t_off) % 65536
        t_low == t_on
    IN  _change_status(t, id, command,
                       <<some(t_hight \div 256), some(t_hight % 256),
                         some(t_low \div 256), some(t_low % 256)>>)

set_blink(t, id, t_on, t_off) == _set_blink_or_breath(t, 4, id, t_on, t_off)

set_breath(t, id, t_on, t_off) == _set_blink_or_breath(t, 5, id, t_on, t_off)

\* led_data_t data { }: value-initialised, op_mode 0 is op_mode_t::off
led_data_zero ==
    [is_available |-> FALSE, op_mode |-> 0, brightness |-> 0,
     color_r |-> 0, color_g |-> 0, color_b |-> 0, t_on |-> 0, t_off |-> 0]

\* get_status decoding the fields before it looks at the mode byte
get_status_decodes_first(t, id, raw_data) ==
    LET t1 == read_block_data(t, 129 + id, 11, raw_data)
        t_hight == raw_data[6] * 256 + raw_data[7]
        t_low == raw_data[8] * 256 + raw_data[9]
        d == [is_available |-> FALSE, op_mode |-> 0, brightness |-> raw_data[2],
              color_r |-> raw_data[3], color_g |-> raw_data[4], color_b |-> raw_data[5],
              t_on |-> t_low, t_off |-> (t_hight - t_low) % 65536]
    IN  IF Len(raw_data) # 11 \/ ~verify_checksum(raw_data)
          THEN [t |-> t1, r |-> led_data_zero]
        ELSE IF raw_data[1] \notin 0..3
          THEN [t |-> t1, r |-> d]
        ELSE [t |-> t1, r |-> [d EXCEPT !.is_available = TRUE, !.op_mode = raw_data[1]]]

\* get_status keeping t_hight - t_low as a signed int
get_status_signed_t_off(t, id, raw_data) ==
    LET t1 == read_block_data(t, 129 + id, 11, raw_data)
        t_hight == raw_data[6] * 256 + raw_data[7]
        t_low == raw_data[8] * 256 + raw_data[9]
    IN  IF Len(raw_data) # 11 \/ ~verify_checksum(raw_data)
          THEN [t |-> t1, r |-> led_data_zero]
        ELSE IF raw_data[1] \notin 0..3
          THEN [t |-> t1, r |-> led_data_zero]
        ELSE [t |-> t1,
              r |-> [is_available |-> TRUE, op_mode |-> raw_data[1], brightness |-> raw_data[2],
                     color_r |-> raw_data[3], color_g |-> raw_data[4], color_b |-> raw_data[5],
                     t_on |-> t_low, t_off |-> t_hight - t_low]]

\* get_status(id) when the device answers the block read with raw_data
get_status(t, id, raw_data) ==
    LET t1 == read_block_data(t, 129 + id, 11, raw_data)
        t_hight == raw_data[6] * 256 + raw_data[7]
        t_low == raw_data[8] * 256 + raw_data[9]
    IN  IF Len(raw_data) # 11 \/ ~verify_checksum(raw_data)
          THEN [t |-> t1, r |-> led_data_zero]
        ELSE IF raw_data[1] \notin 0..3
          THEN [t |-> t1, r |-> led_data_zero]
        ELSE [t |-> t1,
              r |-> [is_available |-> TRUE, op_mode |-> raw_data[1], brightness |-> raw_data[2],
                     color_r |-> raw_data[3], color_g |-> raw_data[4], color_b |-> raw_data[5],
                     t_on |-> t_low, t_off |-> (t_hight - t_low) % 65536]]

turn_off_led(t, id) == set_onoff(t, id, 0)

\* what a transport byte read can return: the register's byte, or -1 when
\* the transaction failed
ByteReadResults == {0, 1, 2, 255, -1}

\* _i2c.read_byte_data(command): one blocking transaction, no retry
read_byte_data(t, addr) ==
    { [t |-> Append(t, Event("read_byte", addr, <<>>, res)), r |-> res] : res \in ByteReadResults }

IsByteRead(e) == e.k = "read_byte"

is_last_modification_successful(t) ==
    { [t |-> s.t, r |-> (s.r = 1)] : s \in read_byte_data(t, 128) }

\* set_led_state reporting success only when the write-ack register reads 1
\* after its last command
set_led_state_checks_ack(t, id, on, color, brightness) ==
    IF ~on THEN turn_off_led(t, id)
    ELSE UNION { IF s1.r # 0 THEN {s1}
                 ELSE UNION { IF s2.r # 0 THEN {s2}
                              ELSE UNION { IF s3.r # 0 THEN {s3}
                                           ELSE { [t |-> a.t, r |-> IF a.r THEN 0 ELSE -1]
                                                  : a \in is_last_modification_successful(s3.t) }
                                           : s3 \in set_onoff(usleep(s2.t, 10000), id, 1) }
                              : s2 \in set_brightness(usleep(s1.t, 10000), id, brightness) }
                 : s1 \in set_rgb(t, id, color.r, color.g, color.b) }

\* set_led_state going on to on-off(1) after a rejected set-brightness
set_led_state_no_stop(t, id, on, color, brightness) ==
    IF ~on THEN turn_off_led(t, id)
    ELSE UNION { IF s1.r # 0 THEN {s1}
                 ELSE UNION { set_onoff(usleep(s2.t, 10000), id, 1)
                              : s2 \in set_brightness(usleep(s1.t, 10000), id, brightness) }
                 : s1 \in set_rgb(t, id, color.r, color.g, color.b) }

set_led_state(t, id, on, color, brightness) ==
    IF ~on THEN turn_off_led(t, id)
    ELSE UNION { IF s1.r # 0 THEN {s1}
                 ELSE UNION { IF s2.r # 0 THEN {s2}
                              ELSE set_onoff(usleep(s2.t, 10000), id, 1)
                              : s2 \in set_brightness(usleep(s1.t, 10000), id, brightness) }
                 : s1 \in set_rgb(t, id, color.r, color.g, color.b) }

\* int | int on two's complement integers
RECURSIVE BitOr(_, _)
BitOr(a, b) ==
    IF a = 0 THEN b
    ELSE IF b = 0 THEN a
    ELSE IF a = -1 \/ b = -1 THEN -1
    ELSE (IF a % 2 = 1 \/ b % 2 = 1 THEN 1 ELSE 0) + 2 * BitOr(a \div 2, b \div 2)

\* the end of turn_off_all_leds: the write-ack check made when every
\* turn-off reported success
check_write_ack(s, result) ==
    IF result = 0
    THEN { [t |-> a.t, r |-> IF a.r THEN result ELSE -1]
           : a \in is_last_modification_successful(usleep(s.t, 50000)) }
    ELSE { [t |-> s.t, r |-> result] }

\* turn_off_all_leds returning at the first turn-off that failed
turn_off_all_leds_stops_at_failure(t) ==
    UNION { IF s1.r # 0 THEN {s1} ELSE
    UNION { IF s2.r # 0 THEN {s2} ELSE
    UNION { IF s3.r # 0 THEN {s3} ELSE
    UNION { check_write_ack(s4, s4.r)
            : s4 \in turn_off_led(usleep(s3.t, 20000), disk2) }
            : s3 \in turn_off_led(usleep(s2.t, 20000), disk1) }
            : s2 \in turn_off_led(usleep(s1.t, 20000), netdev) }
            : s1 \in turn_off_led(t, power) }

\* turn_off_all_leds reporting success without reading the write-ack register
turn_off_all_leds_no_ack(t) ==
    UNION { UNION { UNION {
        { [t |-> s4.t, r |-> BitOr(BitOr(BitOr(s1.r, s2.r), s3.r), s4.r)]
            : s4 \in turn_off_led(usleep(s3.t, 20000), disk2) }
            : s3 \in turn_off_led(usleep(s2.t, 20000), disk1) }
            : s2 \in turn_off_led(usleep(s1.t, 20000), netdev) }
            : s1 \in turn_off_led(t, power) }

turn_off_all_leds(t) ==
    UNION { UNION { UNION { UNION {
        LET r1 == s1.r
            r2 == IF s2.r # 0 THEN BitOr(r1, s2.r) ELSE r1
            r3 == IF s3.r # 0 THEN BitOr(r2, s3.r) ELSE r2
            r4 == IF s4.r # 0 THEN BitOr(r3, s4.r) ELSE r3
        IN  check_write_ack(s4, r4)
            : s4 \in turn_off_led(usleep(s3.t, 20000), disk2) }
            : s3 \in turn_off_led(usleep(s2.t, 20000), disk1) }
            : s2 \in turn_off_led(usleep(s1.t, 20000), netdev) }
            : s1 \in turn_off_led(t, power) }

----------------------------------------------------------------------------
(* LED state manager *)

get_target_led_states(state) ==
    CASE state = "UTILIZATION_OFF" ->
            [netdev_on |-> FALSE, disk1_on |-> FALSE, disk2_on |-> FALSE, color |-> COLOR_OFF]
      [] state = "NETDEV_GREEN" ->
            [netdev_on |-> TRUE, disk1_on |-> FALSE, disk2_on |-> FALSE, color |-> COLOR_GREEN]
      [] state = "NETDEV_DISK1_BLUE" ->
            [netdev_on |-> TRUE, disk1_on |-> TRUE, disk2_on |-> FALSE, color |-> COLOR_BLUE]
      [] state = "ALL_UTILIZATION_RED" ->
            [netdev_on |-> TRUE, disk1_on |-> TRUE, disk2_on |-> TRUE, color |-> COLOR_RED]

\* determine_state_from_usage with a usage equal to a threshold in the lower band
determine_state_from_usage_closed(usage_percentage) ==
    IF ~Less(Rat(_low_threshold, 1), usage_percentage) THEN "UTILIZATION_OFF"
    ELSE IF ~Less(Rat(_medium_threshold, 1), usage_percentage) THEN "NETDEV_GREEN"
    ELSE IF ~Less(Rat(_high_threshold, 1), usage_percentage) THEN "NETDEV_DISK1_BLUE"
    ELSE "ALL_UTILIZATION_RED"

\* usage_percentage is a double, each threshold a uint8_t converted to double
determine_state_from_usage(usage_percentage) ==
    IF Less(usage_percentage, Rat(_low_threshold, 1)) THEN "UTILIZATION_OFF"
    ELSE IF Less(usage_percentage, Rat(_medium_threshold, 1)) THEN "NETDEV_GREEN"
    ELSE IF Less(usage_percentage, Rat(_high_threshold, 1)) THEN "NETDEV_DISK1_BLUE"
    ELSE "ALL_UTILIZATION_RED"

\* one utilisation LED of apply_led_state: set it or turn it off
apply_one_led(t, id, on, color, brightness) ==
    IF on THEN set_led_state(t, id, TRUE, color, brightness)
    ELSE turn_off_led(t, id)

\* apply_led_state giving up at the first utilisation LED that fails
apply_led_state_stops_at_failure(t, state, brightness) ==
    LET tg == get_target_led_states(state) IN
    UNION { IF p.r # 0 THEN {[t |-> p.t, r |-> FALSE]}
            ELSE UNION { IF n.r # 0 THEN {[t |-> n.t, r |-> FALSE]}
                         ELSE UNION { IF d1.r # 0 THEN {[t |-> d1.t, r |-> FALSE]}
                                      ELSE { [t |-> d2.t, r |-> (d2.r = 0)]
                                             : d2 \in apply_one_led(usleep(d1.t, 100000), LEDCTL_LED_DISK2,
                                                                    tg.disk2_on, tg.color, brightness) }
                                      : d1 \in apply_one_led(usleep(n.t, 100000), LEDCTL_LED_DISK1,
                                                             tg.disk1_on, tg.color, brightness) }
                         : n \in apply_one_led(usleep(p.t, 100000), LEDCTL_LED_NETDEV,
                                               tg.netdev_on, tg.color, brightness) }
            : p \in set_led_state(t, LEDCTL_LED_POWER, TRUE, COLOR_WHITE, brightness) }

\* apply_led_state going on to the utilisation LEDs after a failed power step
apply_led_state_ignores_power_failure(t, state, brightness) ==
    LET tg == get_target_led_states(state) IN
    UNION { UNION { UNION { { [t |-> d2.t, r |-> (p.r = 0 /\ n.r = 0 /\ d1.r = 0 /\ d2.r = 0)]
                              : d2 \in apply_one_led(usleep(d1.t, 100000), LEDCTL_LED_DISK2,
                                                     tg.disk2_on, tg.color, brightness) }
                            : d1 \in apply_one_led(usleep(n.t, 100000), LEDCTL_LED_DISK1,
                                                   tg.disk1_on, tg.color, brightness) }
                    : n \in apply_one_led(usleep(p.t, 100000), LEDCTL_LED_NETDEV,
                                          tg.netdev_on, tg.color, brightness) }
            : p \in set_led_state(t, LEDCTL_LED_POWER, TRUE, COLOR_WHITE, brightness) }

\* the outcomes [t, r] of apply_led_state, r its boolean result
apply_led_state(t, state, brightness) ==
    LET tg == get_target_led_states(state) IN
    UNION { IF p.r # 0 THEN {[t |-> p.t, r |-> FALSE]}
            ELSE UNION { UNION { { [t |-> d2.t, r |-> (n.r = 0 /\ d1.r = 0 /\ d2.r = 0)]
                                   : d2 \in apply_one_led(usleep(d1.t, 100000), LEDCTL_LED_DISK2,
                                                          tg.disk2_on, tg.color, brightness) }
                                 : d1 \in apply_one_led(usleep(n.t, 100000), LEDCTL_LED_DISK1,
                                                        tg.disk1_on, tg.color, brightness) }
                         : n \in apply_one_led(usleep(p.t, 100000), LEDCTL_LED_NETDEV,
                                               tg.netdev_on, tg.color, brightness) }
            : p \in set_led_state(t, LEDCTL_LED_POWER, TRUE, COLOR_WHITE, brightness) }

\* set_state recording the state whatever apply_led_state returned
set_state_records_always(state) ==
    \E a \in apply_led_state(<<>>, state, _brightness) :
        /\ _current_state' = state
        /\ trace' = a.t
        /\ call' = [op |-> "set_state", args |-> <<state>>, ret |-> a.r]
        /\ UNCHANGED <<cfg, rx>>

\* bool led_state_manager_t::set_state(led_state_t state)
set_state(state) ==
    \E a \in apply_led_state(<<>>, state, _brightness) :
        /\ _current_state' = IF a.r THEN state ELSE _current_state
        /\ trace' = a.t
        /\ call' = [op |-> "set_state", args |-> <<state>>, ret |-> a.r]
        /\ UNCHANGED <<cfg, rx>>

\* update_leds applying the classified state even when it is the recorded one
update_leds_applies_always(bandwidth_info) ==
    LET new_state == determine_state_from_usage(bandwidth_info.usage_percentage) IN
    /\ IF ~bandwidth_info.valid
         THEN /\ trace' = <<>>
              /\ call' = [op |-> "update_leds", args |-> <<bandwidth_info>>, ret |-> FALSE]
              /\ UNCHANGED _current_state
         ELSE \E a \in apply_led_state(<<>>, new_state, _brightness) :
                /\ trace' = a.t
                /\ call' = [op |-> "update_leds", args |-> <<bandwidth_info>>, ret |-> a.r]
                /\ _current_state' = IF a.r THEN new_state ELSE _current_state
    /\ UNCHANGED <<cfg, rx>>

\* update_leds classifying and applying a reading without looking at valid
update_leds_ignores_valid(bandwidth_info) ==
    LET new_state == determine_state_from_usage(bandwidth_info.usage_percentage) IN
    /\ IF new_state # _current_state
         THEN \E a \in apply_led_state(<<>>, new_state, _brightness) :
                /\ trace' = a.t
                /\ call' = [op |-> "update_leds", args |-> <<bandwidth_info>>, ret |-> a.r]
                /\ _current_state' = IF a.r THEN new_state ELSE _current_state
       ELSE   /\ trace' = <<>>
              /\ call' = [op |-> "update_leds", args |-> <<bandwidth_info>>, ret |-> TRUE]
              /\ UNCHANGED _current_state
    /\ UNCHANGED <<cfg, rx>>

\* bool led_state_manager_t::update_leds(const bandwidth_info_t&)
update_leds(bandwidth_info) ==
    LET new_state == determine_state_from_usage(bandwidth_info.usage_percentage) IN
    /\ IF ~bandwidth_info.valid
         THEN /\ trace' = <<>>
              /\ call' = [op |-> "update_leds", args |-> <<bandwidth_info>>, ret |-> FALSE]
              /\ UNCHANGED _current_state
       ELSE IF new_state # _current_state
         THEN \E a \in apply_led_state(<<>>, new_state, _brightness) :
                /\ trace' = a.t
                /\ call' = [op |-> "update_leds", args |-> <<bandwidth_info>>, ret |-> a.r]
                /\ _current_state' = IF a.r THEN new_state ELSE _current_state
       ELSE   /\ trace' = <<>>
              /\ call' = [op |-> "update_leds", args |-> <<bandwidth_info>>, ret |-> TRUE]
              /\ UNCHANGED _current_state
    /\ UNCHANGED <<cfg, rx>>

----------------------------------------------------------------------------
(* Bandwidth monitor.  The byte counters are 64 bits wide in the program;  *)
(* the model keeps every rule of the arithmetic but counts in CounterBits  *)
(* bits, so UINT64_MAX stands for the largest counter value.               *)

CounterBits == 18
UINT64_MAX == 2^CounterBits - 1

\* network_stats_t
network_stats_t(rx_bytes, tx_bytes, timestamp) ==
    [rx_bytes |-> rx_bytes, tx_bytes |-> tx_bytes, timestamp |-> timestamp]

\* bandwidth_info_t result = {0.0, 0.0, 0.0, 0.0, false}
invalid_info ==
    [rx_mbps |-> Zero, tx_mbps |-> Zero, total_mbps |-> Zero, usage_percentage |-> Zero,
     valid |-> FALSE]

\* the sysfs files hold text: a file's value is some(number) or, when
\* std::stoull rejects the text, nullopt; sys is nullopt when a file cannot
\* be opened or read
parse_sys_class_net(sys, stats) ==
    IF sys = nullopt THEN [ok |-> FALSE, stats |-> stats]
    ELSE IF sys[1].rx = nullopt THEN [ok |-> FALSE, stats |-> stats]
    ELSE IF sys[1].tx = nullopt
         THEN [ok |-> FALSE, stats |-> [stats EXCEPT !.rx_bytes = sys[1].rx[1]]]
    ELSE [ok |-> TRUE,
          stats |-> network_stats_t(sys[1].rx[1], sys[1].tx[1], stats.timestamp)]

\* proc is the interface's line of /proc/net/dev, nullopt when there is none
parse_proc_net_dev(proc, stats) ==
    IF proc = nullopt THEN [ok |-> FALSE, stats |-> stats]
    ELSE [ok |-> TRUE, stats |-> network_stats_t(proc[1].rx, proc[1].tx, stats.timestamp)]

\* read_network_stats at time now, the files holding net
read_network_stats(net, now) ==
    LET stats == network_stats_t(UINT64_MAX, UINT64_MAX, now)
        s1 == parse_sys_class_net(net.sys, stats)
        s2 == parse_proc_net_dev(net.proc, s1.stats)
    IN  IF s1.ok THEN s1.stats ELSE s2.stats

\* counter_diff computed modulo the counter width
counter_diff_modular(current, last) == (current - last) % (UINT64_MAX + 1)

\* the wrap-aware difference of one counter
counter_diff(current, last) ==
    IF current >= last THEN current - last ELSE (UINT64_MAX - last) + current

\* mbps without the conversion of bytes to bits
mbps_of_bytes(diff, seconds) == Over(Rat(diff, 1), Times(seconds, Rat(1000000, 1)))

\* (diff * 8.0) / (seconds * 1000000.0)
mbps(diff, seconds) ==
    Over(Times(Rat(diff, 1), Rat(8, 1)), Times(seconds, Rat(1000000, 1)))

\* usage_percentage without the clamp to 100
usage_percentage_unclamped(total_mbps) ==
    Times(Over(total_mbps, Rat(_capacity_mbps, 1)), Rat(100, 1))

\* (total_mbps / _capacity_mbps) * 100.0, clamped to 100.0
usage_percentage(total_mbps) ==
    LET usage == Times(Over(total_mbps, Rat(_capacity_mbps, 1)), Rat(100, 1))
    IN  IF Less(Rat(100, 1), usage) THEN Rat(100, 1) ELSE usage

\* the valid reading get_bandwidth_usage computes from current_stats and the
\* baseline, time_diff milliseconds apart
valid_info(current_stats, time_diff) ==
    LET seconds == Over(Rat(time_diff, 1), Rat(1000, 1))
        rx_diff == counter_diff(current_stats.rx_bytes, _last_stats.rx_bytes)
        tx_diff == counter_diff(current_stats.tx_bytes, _last_stats.tx_bytes)
        rx_mbps == mbps(rx_diff, seconds)
        tx_mbps == mbps(tx_diff, seconds)
        total_mbps == Plus(rx_mbps, tx_mbps)
    IN  [rx_mbps |-> rx_mbps, tx_mbps |-> tx_mbps, total_mbps |-> total_mbps,
         usage_percentage |-> usage_percentage(total_mbps), valid |-> TRUE]

\* initialize taking the interface's existence as success
initialize_trusts_existence(exists, net, now) ==
    IF ~exists THEN [r |-> FALSE, last |-> _last_stats, init |-> _initialized,
                     read |-> FALSE]
    ELSE LET stats == read_network_stats(net, now)
         IN  [r |-> TRUE, last |-> stats, init |-> TRUE, read |-> TRUE]

\* bandwidth_monitor_t::initialize: [r |-> return value, last |-> _last_stats,
\* init |-> _initialized, read |-> read_network_stats was called]
initialize(exists, net, now) ==
    IF ~exists THEN [r |-> FALSE, last |-> _last_stats, init |-> _initialized,
                     read |-> FALSE]
    ELSE LET stats == read_network_stats(net, now)
             ok == stats.rx_bytes # UINT64_MAX /\ stats.tx_bytes # UINT64_MAX
         IN  [r |-> ok, last |-> stats, init |-> ok, read |-> TRUE]

\* get_bandwidth_usage storing every sample it read as the new baseline
get_bandwidth_usage_rebases_always(net, now) ==
    IF ~_initialized THEN [r |-> invalid_info, last |-> _last_stats, read |-> FALSE]
    ELSE
    LET current_stats == read_network_stats(net, now)
        time_diff == current_stats.timestamp - _last_stats.timestamp
    IN  IF current_stats.rx_bytes = UINT64_MAX \/ current_stats.tx_bytes = UINT64_MAX
        THEN [r |-> invalid_info, last |-> current_stats,
              read |-> TRUE]
        ELSE IF time_diff < 100 THEN [r |-> invalid_info, last |-> current_stats,
              read |-> TRUE]
        ELSE [r |-> valid_info(current_stats, time_diff), last |-> current_stats,
              read |-> TRUE]

\* bandwidth_monitor_t::get_bandwidth_usage at time now, the files holding
\* net: [r |-> the reading returned, last |-> _last_stats after the call,
\* read |-> read_network_stats was called]
get_bandwidth_usage(net, now) ==
    IF ~_initialized THEN [r |-> invalid_info, last |-> _last_stats, read |-> FALSE]
    ELSE
    LET current_stats == read_network_stats(net, now)
        time_diff == current_stats.timestamp - _last_stats.timestamp
    IN  IF current_stats.rx_bytes = UINT64_MAX \/ current_stats.tx_bytes = UINT64_MAX
        THEN [r |-> invalid_info, last |-> _last_stats,
              read |-> TRUE]
        ELSE IF time_diff < 100 THEN [r |-> invalid_info, last |-> _last_stats,
              read |-> TRUE]
        ELSE [r |-> valid_info(current_stats, time_diff), last |-> current_stats,
              read |-> TRUE]

\* what a monitor call did to the counter files: one read_network_stats, or
\* nothing
ReadEvents(o) ==
    IF o.read THEN <<Event("read_network_stats", 0, <<>>, 0)>> ELSE <<>>

\* no write has reached an LED yet: -1 stands for a value the program has
\* not set
UnknownLeds ==
    [id \in {power, netdev, disk1, disk2} |->
        [on |-> -1, color |-> [r |-> -1, g |-> -1, b |-> -1]]]

\* the board before the program wrote to it; int current_state = 0;
\* bool success = false
NotStarted ==
    /\ leds = UnknownLeds
    /\ current_state = 0
    /\ success = FALSE

\* a monitor that was constructed and not used yet, and a program that has
\* not entered its loop
NoMonitor ==
    /\ _capacity_mbps = 2000
    /\ _last_stats = network_stats_t(0, 0, 0)
    /\ _initialized = FALSE
    /\ clock = 0
    /\ calls = 0
    /\ consecutive_failures = 0
    /\ g_running = 1
    /\ NotStarted

----------------------------------------------------------------------------
(* The state manager driven by its callers *)

BrightnessSamples == {128, 255}

\* the usage percentages run_testing_mode feeds (5, 25, 60, 90 %)
UsageSamples == {Rat(5, 1), Rat(25, 1), Rat(60, 1), Rat(90, 1)}

BandwidthInfos ==
    [usage_percentage : UsageSamples, valid : {TRUE}] \cup {[usage_percentage |-> Zero, valid |-> FALSE]}

\* the thresholds of the example configuration (10 / 40 / 80 %)
Init ==
    /\ _current_state = "UTILIZATION_OFF"
    /\ _brightness \in BrightnessSamples
    /\ _low_threshold = 10
    /\ _medium_threshold = 40
    /\ _high_threshold = 80
    /\ rx = <<>>
    /\ pc = "ready"
    /\ call = [op |-> "constructor", args |-> <<>>, ret |-> 0]
    /\ trace = <<>>
    /\ NoMonitor

SetState ==
    /\ \E state \in led_state_t : set_state(state)
    /\ UNCHANGED <<pc, mon, clock, calls, loop, prog>>

UpdateLeds ==
    /\ \E bi \in BandwidthInfos : update_leds(bi)
    /\ UNCHANGED <<pc, mon, clock, calls, loop, prog>>

Next == SetState \/ UpdateLeds

Spec == Init /\ [][Next]_vars

----------------------------------------------------------------------------
(* Properties of the state manager (specification Spec) *)

\* the write transactions of a trace, in order
Writes(t) == SelectSeq(t, IsWrite)

\* some write of the trace was rejected by the transport
AnyWriteFailed(t) == \E i \in 1..Len(t) : IsWrite(t[i]) /\ t[i].res # 0

\* the call ran the applier's entry points with a usable input
IsApplyCall(c) ==
    \/ c.op = "set_state"
    \/ c.op = "update_leds" /\ c.args[1].valid

\* the visual state an apply call asks for
Target(c) ==
    IF c.op = "set_state" THEN c.args[1]
    ELSE determine_state_from_usage(c.args[1].usage_percentage)

\* opcode and parameter bytes of a written frame
Opcode(e) == e.data[6]
Params(e) == SubSeq(e.data, 7, 10)

\* the writes of a trace addressed to LED id
WritesOf(t, id) == SelectSeq(t, LAMBDA e : IsWrite(e) /\ e.addr = id)

\* C1: the recorded state starts at OFF and changes only on a fully
\* successful apply: when any write of an apply is rejected the call returns
\* failure and the recorded state keeps its value from before the call;
\* when every write succeeds the call returns success and the recorded
\* state is the target.
C1_RecordedOnlyOnFullSuccess ==
    /\ _current_state = "UTILIZATION_OFF"
    /\ [][ IsApplyCall(call') =>
             /\ AnyWriteFailed(trace') =>
                    call'.ret = FALSE /\ _current_state' = _current_state
             /\ ~AnyWriteFailed(trace') =>
                    call'.ret = TRUE /\ _current_state' = Target(call') ]_vars

\* C1 witness: netdev was rejected, disk1 was written afterwards, the call
\* failed and the recorded state is not the target
C1_Witness ==
    /\ call.op = "update_leds"
    /\ call.args[1].valid
    /\ call.ret = FALSE
    /\ \E i, j \in 1..Len(trace) :
          /\ i < j
          /\ IsWrite(trace[i]) /\ trace[i].addr = netdev /\ trace[i].res # 0
          /\ IsWrite(trace[j]) /\ trace[j].addr = disk1 /\ trace[j].res = 0
    /\ _current_state # Target(call)
    /\ _current_state # "UTILIZATION_OFF"

\* the writes to one LED are those of set_led_state(on, color, brightness):
\* set-color, set-brightness, on-off(1), cut after the first rejected one
IsSetOnSequence(ws, color, brightness) ==
    /\ Len(ws) \in 1..3
    /\ Opcode(ws[1]) = 2 /\ Params(ws[1]) = <<color.r, color.g, color.b, 0>>
    /\ Len(ws) >= 2 => Opcode(ws[2]) = 1 /\ Params(ws[2]) = <<brightness, 0, 0, 0>>
    /\ Len(ws) >= 3 => Opcode(ws[3]) = 3 /\ Params(ws[3]) = <<1, 0, 0, 0>>
    /\ \A i \in 1..(Len(ws) - 1) : ws[i].res = 0
    /\ Len(ws) < 3 => ws[Len(ws)].res # 0

\* the writes to one LED are those of turn_off: a single on-off(0)
IsTurnOffSequence(ws) ==
    /\ Len(ws) = 1
    /\ Opcode(ws[1]) = 3 /\ Params(ws[1]) = <<0, 0, 0, 0>>

\* the power step of an apply succeeded: its on-off(1) was accepted
PowerStepSucceeded(t) ==
    \E i \in 1..Len(t) :
        IsWrite(t[i]) /\ t[i].addr = power /\ Opcode(t[i]) = 3 /\ t[i].res = 0

\* C2: an apply that runs writes the LEDs in the order power, netdev,
\* disk1, disk2; the power LED is set on and white; once the power step
\* succeeded each of netdev, disk1, disk2 is attempted whatever the earlier
\* ones returned, with set_led_state (target colour) when the target
\* turns it on and with turn_off otherwise; target LOW written without a
\* failure is power-on-white, netdev-on-green, disk1-off, disk2-off.
C2_FixedOrderAllAttempted ==
    (IsApplyCall(call) /\ trace # <<>>) =>
        LET ws == Writes(trace)
            tg == get_target_led_states(Target(call))
            on == [i \in {netdev, disk1, disk2} |->
                     IF i = netdev THEN tg.netdev_on
                     ELSE IF i = disk1 THEN tg.disk1_on ELSE tg.disk2_on]
        IN  /\ \A i \in 1..Len(ws) : ws[i].addr \in {power, netdev, disk1, disk2}
            /\ \A i, j \in 1..Len(ws) : i < j => ws[i].addr <= ws[j].addr
            /\ IsSetOnSequence(WritesOf(trace, power), COLOR_WHITE, _brightness)
            /\ PowerStepSucceeded(trace) =>
                   \A id \in {netdev, disk1, disk2} :
                       IF on[id]
                       THEN IsSetOnSequence(WritesOf(trace, id), tg.color, _brightness)
                       ELSE IsTurnOffSequence(WritesOf(trace, id))
            /\ (Target(call) = "NETDEV_GREEN" /\ ~AnyWriteFailed(trace)) =>
                   [i \in 1..Len(ws) |-> <<ws[i].addr, Opcode(ws[i]), Params(ws[i])>>]
                     = << <<power, 2, <<255, 255, 255, 0>> >>,
                          <<power, 1, <<_brightness, 0, 0, 0>> >>,
                          <<power, 3, <<1, 0, 0, 0>> >>,
                          <<netdev, 2, <<0, 255, 0, 0>> >>,
                          <<netdev, 1, <<_brightness, 0, 0, 0>> >>,
                          <<netdev, 3, <<1, 0, 0, 0>> >>,
                          <<disk1, 3, <<0, 0, 0, 0>> >>,
                          <<disk2, 3, <<0, 0, 0, 0>> >> >>

\* C2 witness: netdev was rejected and both disk1 and disk2 were still
\* written, in that order
C2_Witness ==
    /\ IsApplyCall(call)
    /\ \E i, j, k \in 1..Len(trace) :
          /\ i < j /\ j < k
          /\ IsWrite(trace[i]) /\ trace[i].addr = netdev /\ trace[i].res # 0
          /\ IsWrite(trace[j]) /\ trace[j].addr = disk1
          /\ IsWrite(trace[k]) /\ trace[k].addr = disk2

\* some write to the power LED was rejected
PowerStepFailed(t) ==
    \E i \in 1..Len(t) : IsWrite(t[i]) /\ t[i].addr = power /\ t[i].res # 0

\* C32: when the power step of an apply fails the apply returns failure at
\* once: the rejected power write is the last transaction of the apply, no
\* command goes to netdev, disk1 or disk2, and the recorded state keeps its
\* value.
C32_PowerFailureEndsApply ==
    [][ (IsApplyCall(call') /\ PowerStepFailed(trace')) =>
            /\ call'.ret = FALSE
            /\ \A id \in {netdev, disk1, disk2} : WritesOf(trace', id) = <<>>
            /\ IsWrite(trace'[Len(trace')])
            /\ trace'[Len(trace')].addr = power
            /\ trace'[Len(trace')].res # 0
            /\ _current_state' = _current_state ]_vars

\* C32 witness: the set-brightness of the power step was rejected in an
\* update towards another state than the recorded one; nothing else was
\* written and the call failed
C32_Witness ==
    /\ call.op = "update_leds"
    /\ call.args[1].valid
    /\ _current_state # Target(call)
    /\ call.ret = FALSE
    /\ Len(Writes(trace)) = 2
    /\ Writes(trace)[1].res = 0
    /\ Writes(trace)[2].addr = power
    /\ Writes(trace)[2].res # 0

\* C3 as stated: every apply request whose target is the recorded state,
\* through update_leds or through set_state, returns success without a
\* bus write
C3_Original ==
    [][ (IsApplyCall(call') /\ Target(call') = _current_state) =>
            (call'.ret = TRUE /\ Writes(trace') = <<>>) ]_vars

\* C3 amended: update_leds whose classified target is the recorded state
\* returns success with no bus traffic and leaves the recorded state, so
\* that a second update_leds in a row towards a target the first one
\* applied writes nothing; set_state applies unconditionally and always
\* starts writing the power LED, also when its target is the recorded state.
C3_IdempotentUpdate ==
    [][ /\ (call'.op = "update_leds" /\ call'.args[1].valid /\ Target(call') = _current_state) =>
              (call'.ret = TRUE /\ trace' = <<>> /\ _current_state' = _current_state)
        /\ (call.op = "update_leds" /\ call.args[1].valid /\ call.ret = TRUE
              /\ call'.op = "update_leds" /\ call'.args[1].valid
              /\ Target(call') = Target(call)) =>
              trace' = <<>>
        /\ call'.op = "set_state" =>
              (Writes(trace') # <<>> /\ Writes(trace')[1].addr = power) ]_vars

\* C3 witness: an update towards the state a previous apply recorded was
\* skipped without bus traffic
C3_Witness ==
    /\ call.op = "update_leds"
    /\ call.args[1].valid
    /\ call.ret = TRUE
    /\ trace = <<>>
    /\ _current_state = Target(call)
    /\ _current_state = "NETDEV_GREEN"

----------------------------------------------------------------------------
(* The controller and the command builder, called once by a driver.  The   *)
(* controller keeps no state between operations, so one call from the      *)
(* ready state covers every call.                                          *)

ByteSamples == {0, 1, 128, 255}
U16Samples == {0, 1, 255, 256, 32768, 65535}
ColorSamples == {COLOR_WHITE, COLOR_GREEN, COLOR_BLUE, COLOR_RED, COLOR_OFF}
StatusSamples == {0, 1, 2, 255}
CommandSamples == {0, 1, 2, 3, 4, 5, 255}
OptionalSamples == {nullopt} \cup { some(v) : v \in ByteSamples }

InitController ==
    /\ _current_state = "UTILIZATION_OFF"
    /\ _brightness = DEFAULT_BRIGHTNESS
    /\ _low_threshold = 10
    /\ _medium_threshold = 40
    /\ _high_threshold = 80
    /\ rx = <<>>
    /\ pc = "ready"
    /\ call = [op |-> "constructor", args |-> <<>>, ret |-> 0]
    /\ trace = <<>>
    /\ NoMonitor

\* the driver's single call of a controller operation with outcome o
Called(op, args, o) ==
    /\ pc' = "done"
    /\ call' = [op |-> op, args |-> args, ret |-> o.r]
    /\ trace' = o.t
    /\ UNCHANGED <<_current_state, cfg, rx, mon, clock, calls, loop, prog>>

BuildCommand ==
    /\ pc = "ready"
    /\ \E command \in CommandSamples, params \in [1..4 -> OptionalSamples] :
        Called("build_command", <<command, params>>,
               [t |-> <<>>, r |-> build_command(command, params)])

SetOnoff ==
    /\ pc = "ready"
    /\ \E id \in led_type_t, status \in StatusSamples :
        \E o \in set_onoff(<<>>, id, status) : Called("set_onoff", <<id, status>>, o)

SetRgb ==
    /\ pc = "ready"
    /\ \E id \in led_type_t, r \in ByteSamples, g \in ByteSamples, b \in ByteSamples :
        \E o \in set_rgb(<<>>, id, r, g, b) : Called("set_rgb", <<id, r, g, b>>, o)

SetBrightness ==
    /\ pc = "ready"
    /\ \E id \in led_type_t, brightness \in ByteSamples :
        \E o \in set_brightness(<<>>, id, brightness) : Called("set_brightness", <<id, brightness>>, o)

SetBlink ==
    /\ pc = "ready"
    /\ \E id \in led_type_t, t_on \in U16Samples, t_off \in U16Samples :
        \E o \in set_blink(<<>>, id, t_on, t_off) : Called("set_blink", <<id, t_on, t_off>>, o)

SetBreath ==
    /\ pc = "ready"
    /\ \E id \in led_type_t, t_on \in U16Samples, t_off \in U16Samples :
        \E o \in set_breath(<<>>, id, t_on, t_off) : Called("set_breath", <<id, t_on, t_off>>, o)

TurnOffLed ==
    /\ pc = "ready"
    /\ \E id \in led_type_t :
        \E o \in turn_off_led(<<>>, id) : Called("turn_off_led", <<id>>, o)

SetLedState ==
    /\ pc = "ready"
    /\ \E id \in led_type_t, on \in BOOLEAN, color \in ColorSamples, brightness \in ByteSamples :
        \E o \in set_led_state(<<>>, id, on, color, brightness) :
            Called("set_led_state", <<id, on, color, brightness>>, o)

TurnOffAllLeds ==
    /\ pc = "ready"
    /\ \E o \in turn_off_all_leds(<<>>) : Called("turn_off_all_leds", <<>>, o)

NextController ==
    \/ BuildCommand
    \/ SetOnoff
    \/ SetRgb
    \/ SetBrightness
    \/ SetBlink
    \/ SetBreath
    \/ TurnOffLed
    \/ SetLedState
    \/ TurnOffAllLeds

SpecController == InitController /\ [][NextController]_vars

----------------------------------------------------------------------------
(* Properties of the command builder and the controller writes            *)
(* (specification SpecController)                                         *)

\* the big-endian value of the two trailing bytes of a frame
TrailerValue(d) == d[Len(d) - 1] * 256 + d[Len(d)]

\* C4: checksum round trip: the frame the command builder produces, for
\* every opcode and every combination of parameter bytes, is accepted by
\* verify_checksum.
C4_ChecksumRoundTrip ==
    call.op = "build_command" => verify_checksum(call.ret)

\* C4 witness: a built frame whose checksum does not fit in one byte
C4_Witness ==
    /\ call.op = "build_command"
    /\ call.ret[11] # 0
    /\ call.ret[11] # call.ret[12]
    /\ verify_checksum(call.ret)

\* C5 as stated: the trailing two bytes of every frame handed to the
\* transport are the big-endian sum of all preceding bytes, address byte
\* included
C5_Original ==
    \A i \in 1..Len(trace) :
        IsWrite(trace[i]) =>
            TrailerValue(trace[i].data) = SumFirst(trace[i].data, Len(trace[i].data) - 2)

\* C5 amended: the checksum of every frame handed to the transport was
\* computed before the address byte was stored: its trailing two bytes are
\* the big-endian sum of the preceding bytes other than the address byte,
\* so it covers all preceding bytes only for the power LED (address 0).
C5_ChecksumExcludesAddress ==
    \A i \in 1..Len(trace) :
        IsWrite(trace[i]) =>
            LET d == trace[i].data IN
            /\ d[1] = trace[i].addr
            /\ TrailerValue(d) = SumFirst(d, Len(d) - 2) - d[1]
            /\ (TrailerValue(d) = SumFirst(d, Len(d) - 2)) <=> (trace[i].addr = power)

\* C5 witness: a frame written to a LED other than power
C5_Witness ==
    \E i \in 1..Len(trace) :
        IsWrite(trace[i]) /\ trace[i].addr = disk2 /\ trace[i].data[1] = disk2

\* C7 as stated: the built frame has 11 bytes and its trailing two bytes
\* are the big-endian sum of its first 9 bytes
C7_Original ==
    call.op = "build_command" =>
        /\ Len(call.ret) = 11
        /\ TrailerValue(call.ret) = SumFirst(call.ret, 9)

\* C7 amended: the built frame has 12 bytes: the id placeholder (0), the 9
\* bytes 0xA0, 0x01, 0x00, 0x00, opcode, p0..p3, and two checksum bytes that
\* are the big-endian 16-bit sum of the first 10 bytes.
C7_FrameLayout ==
    call.op = "build_command" =>
        /\ Len(call.ret) = 12
        /\ call.ret[1] = 0
        /\ SubSeq(call.ret, 2, 6) = <<160, 1, 0, 0, call.args[1]>>
        /\ \A k \in 1..4 : call.ret[6 + k] = value_or(call.args[2][k], 0)
        /\ TrailerValue(call.ret) = SumFirst(call.ret, 10)
        /\ call.ret[11] \in 0..255 /\ call.ret[12] \in 0..255

\* C7 witness: a built frame whose last parameter byte is not 0, so that
\* the sum of the first 9 bytes differs from the sum of the first 10
C7_Witness ==
    /\ call.op = "build_command"
    /\ call.ret[10] = 255
    /\ Len(call.ret) = 12

\* the frame of a write has the wire layout for opcode c and parameters ps
IsWireFrame(e, id, c, ps) ==
    /\ e.addr = id
    /\ Len(e.data) = 12
    /\ SubSeq(e.data, 1, 10) = <<id, 160, 1, 0, 0, c>> \o ps
    /\ TrailerValue(e.data) = 161 + c + ps[1] + ps[2] + ps[3] + ps[4]

\* C8: every write of every controller operation sends the frame
\* [addr, 0xA0, 0x01, 0, 0, opcode, p0..p3, checksum] to the address of the
\* target LED; the opcode is 1 for set_brightness (p0 = brightness), 2 for
\* set_rgb (p0..p2 = r, g, b), 3 for set_onoff (p0 = status), 4 for
\* set_blink, 5 for set_breath; every unset parameter slot is 0.
C8_WireFrames ==
    \A i \in 1..Len(trace) :
        IsWrite(trace[i]) =>
            LET e == trace[i] IN
            /\ call.op \in {"set_brightness", "set_rgb", "set_onoff", "set_blink",
                             "set_breath", "turn_off_led", "set_led_state",
                             "turn_off_all_leds"}
            /\ IsWireFrame(e, IF call.op = "turn_off_all_leds" THEN e.addr ELSE call.args[1],
                           Opcode(e), Params(e))
            /\ Opcode(e) \in 1..5
            /\ call.op = "set_brightness" =>
                   IsWireFrame(e, call.args[1], 1, <<call.args[2], 0, 0, 0>>)
            /\ call.op = "set_rgb" =>
                   IsWireFrame(e, call.args[1], 2, <<call.args[2], call.args[3], call.args[4], 0>>)
            /\ call.op = "set_onoff" =>
                   IsWireFrame(e, call.args[1], 3, <<call.args[2], 0, 0, 0>>)
            /\ call.op = "turn_off_led" =>
                   IsWireFrame(e, call.args[1], 3, <<0, 0, 0, 0>>)
            /\ call.op = "turn_off_all_leds" =>
                   /\ e.addr \in {power, netdev, disk1, disk2}
                   /\ IsWireFrame(e, e.addr, 3, <<0, 0, 0, 0>>)
            /\ call.op = "set_blink" => Opcode(e) = 4
            /\ call.op = "set_breath" => Opcode(e) = 5
            /\ call.op = "set_led_state" =>
                   \/ IsWireFrame(e, call.args[1], 2,
                                  <<call.args[3].r, call.args[3].g, call.args[3].b, 0>>)
                   \/ IsWireFrame(e, call.args[1], 1, <<call.args[4], 0, 0, 0>>)
                   \/ IsWireFrame(e, call.args[1], 3, <<IF call.args[2] THEN 1 ELSE 0, 0, 0, 0>>)

\* C8 witness: set_brightness of a LED other than power was written
C8_Witness ==
    /\ call.op = "set_brightness"
    /\ call.args = <<disk1, 128>>
    /\ Len(trace) = 1
    /\ IsWrite(trace[1])
    /\ Params(trace[1]) = <<128, 0, 0, 0>>

\* C10: set_led_state with on = false issues exactly one on-off(0) and
\* nothing else; with on = true it issues set-color, set-brightness and
\* on-off(1) in that order with a 10 ms dwell between consecutive commands,
\* stops after the first rejected command and returns its result.
C10_SetLedStateSequence ==
    call.op = "set_led_state" =>
        LET id == call.args[1]
            color == call.args[3]
            n == Len(trace)
        IN  IF ~call.args[2]
            THEN /\ n = 1
                 /\ IsWrite(trace[1])
                 /\ IsWireFrame(trace[1], id, 3, <<0, 0, 0, 0>>)
                 /\ call.ret = trace[1].res
            ELSE /\ n \in {1, 3, 5}
                 /\ IsWrite(trace[1])
                 /\ IsWireFrame(trace[1], id, 2, <<color.r, color.g, color.b, 0>>)
                 /\ n >= 3 => /\ trace[2] = Event("usleep", 0, <<>>, 10000)
                              /\ IsWrite(trace[3])
                              /\ IsWireFrame(trace[3], id, 1, <<call.args[4], 0, 0, 0>>)
                 /\ n >= 5 => /\ trace[4] = Event("usleep", 0, <<>>, 10000)
                              /\ IsWrite(trace[5])
                              /\ IsWireFrame(trace[5], id, 3, <<1, 0, 0, 0>>)
                 /\ \A i \in 1..(n - 1) : IsWrite(trace[i]) => trace[i].res = 0
                 /\ n < 5 => trace[n].res # 0
                 /\ call.ret = trace[n].res

\* C10 witness: set-brightness was rejected and on-off(1) never issued
C10_Witness ==
    /\ call.op = "set_led_state"
    /\ call.args[2]
    /\ Len(trace) = 3
    /\ trace[3].res # 0
    /\ call.ret # 0

ByteReads(t) == SelectSeq(t, IsByteRead)

\* C11: turn_off_all_leds writes the turn-off frame to power, netdev, disk1
\* and disk2 in that order, makes all four writes whatever the earlier ones
\* returned, and returns non-zero whenever at least one of the four failed.
C11_TurnOffAllAttemptsAll ==
    call.op = "turn_off_all_leds" =>
        LET ws == Writes(trace) IN
        /\ Len(ws) = 4
        /\ <<ws[1].addr, ws[2].addr, ws[3].addr, ws[4].addr>> = <<power, netdev, disk1, disk2>>
        /\ \A i \in 1..4 : Opcode(ws[i]) = 3 /\ Params(ws[i]) = <<0, 0, 0, 0>>
        /\ AnyWriteFailed(trace) => call.ret # 0

\* C11 witness: the power turn-off failed, the other three were still written
C11_Witness ==
    /\ call.op = "turn_off_all_leds"
    /\ Len(Writes(trace)) = 4
    /\ Writes(trace)[1].res # 0
    /\ Writes(trace)[4].addr = disk2
    /\ Writes(trace)[4].res = 0
    /\ call.ret # 0

\* C12: turn_off_all_leds reads the write-ack register (0x80) only after all
\* four turn-off writes reported success, and then exactly once, as its last
\* transaction: the result is success when the value read is 1 and failure
\* otherwise; when any write failed the register is not read.
C12_AckOnlyAfterFullSuccess ==
    call.op = "turn_off_all_leds" =>
        LET rs == ByteReads(trace) IN
        IF AnyWriteFailed(trace)
        THEN Len(rs) = 0
        ELSE /\ Len(rs) = 1
             /\ Len(Writes(trace)) = 4
             /\ IsByteRead(trace[Len(trace)])
             /\ rs[1].addr = 128
             /\ (rs[1].res = 1) => (call.ret = 0)
             /\ (rs[1].res # 1) => (call.ret # 0)

\* C12 witness: every write succeeded and the ack register did not hold 1
C12_Witness ==
    /\ call.op = "turn_off_all_leds"
    /\ ~AnyWriteFailed(trace)
    /\ Len(ByteReads(trace)) = 1
    /\ ByteReads(trace)[1].res = 0
    /\ call.ret # 0

\* C37: set_onoff with a status of 2 or more returns -1 and issues no bus
\* transaction; with status 0 or 1 it issues exactly one on-off command to
\* the LED, carrying that status, and returns the result of its write.
C37_SetOnoffRejectsStatus ==
    call.op = "set_onoff" =>
        LET id == call.args[1]
            status == call.args[2]
        IN  IF status >= 2
            THEN call.ret = -1 /\ trace = <<>>
            ELSE /\ Len(trace) = 1
                 /\ IsWrite(trace[1])
                 /\ IsWireFrame(trace[1], id, 3, <<status, 0, 0, 0>>)
                 /\ call.ret = trace[1].res

\* C37 witness: set_onoff with status 2 was refused without bus traffic
C37_Witness ==
    /\ call.op = "set_onoff"
    /\ call.args[2] = 2
    /\ call.ret = -1
    /\ trace = <<>>

\* C26: set_blink and set_breath send one command whose parameters are two
\* big-endian 16-bit fields, p0,p1 = t_high = (t_on + t_off) mod 2^16 and
\* p2,p3 = t_low = t_on; when t_on + t_off >= 65536 the sum wraps and the
\* command is still written, the call returning what the write returned.
C26_BlinkTimingEncoding ==
    call.op \in {"set_blink", "set_breath"} =>
        LET t_on == call.args[2]
            t_off == call.args[3]
            t_high == (t_on + t_off) % 65536
            ws == Writes(trace)
        IN  /\ Len(ws) = 1
            /\ Opcode(ws[1]) = IF call.op = "set_blink" THEN 4 ELSE 5
            /\ Params(ws[1]) = <<t_high \div 256, t_high % 256, t_on \div 256, t_on % 256>>
            /\ \A i \in 1..4 : Params(ws[1])[i] \in 0..255
            /\ call.ret = ws[1].res

\* C26 witness: t_on + t_off = 65536 + 255 wrapped to t_high = 255 and the
\* command was accepted
C26_Witness ==
    /\ call.op = "set_blink"
    /\ call.args[2] = 65535
    /\ call.args[3] = 256
    /\ Len(Writes(trace)) = 1
    /\ Params(Writes(trace)[1]) = <<0, 255, 255, 255>>
    /\ call.ret = 0

----------------------------------------------------------------------------
(* Status frames: the device's answer to a block read is drawn at the      *)
(* start; the driver reads it once with get_status or checks it with       *)
(* verify_checksum.                                                        *)

\* frames up to this length are enumerated exhaustively over TinyBytes
MaxTinyLen == 3
TinyBytes == {0, 1, 255}
TinyFrames == UNION { [1..n -> TinyBytes] : n \in 0..MaxTinyLen }

\* the nine bytes before the checksum of a status frame:
\* mode, brightness, r, g, b, t_high (2 bytes), t_low (2 bytes)
StatusPayloads ==
    { <<m, br>> \o c \o th \o tl :
        m \in {0, 1, 2, 3, 4, 255}, br \in {0, 200},
        c \in {<<0, 0, 0>>, <<1, 2, 3>>},
        th \in {<<0, 0>>, <<0, 10>>, <<255, 255>>},
        tl \in {<<0, 0>>, <<0, 10>>, <<1, 0>>} }

\* the trailing two bytes a device may send after payload p: the big-endian
\* sum, zeroes, the sum with its bytes swapped, the sum plus one
Trailers(p) ==
    LET sum == SumFirst(p, Len(p)) IN
    { <<(sum \div 256) % 256, sum % 256>>, <<0, 0>>,
      <<sum % 256, (sum \div 256) % 256>>, <<((sum + 1) \div 256) % 256, (sum + 1) % 256>> }

RawFrames ==
    UNION { { p \o c : c \in Trailers(p) } : p \in StatusPayloads }

\* frames of 10 and 12 bytes, with every kind of trailer
OddFrames ==
    UNION { { q \o c : c \in Trailers(q) } :
            q \in { SubSeq(p, 1, 8) : p \in StatusPayloads } \cup { p \o <<7>> : p \in StatusPayloads } }

InitStatus ==
    /\ _current_state = "UTILIZATION_OFF"
    /\ _brightness = DEFAULT_BRIGHTNESS
    /\ _low_threshold = 10
    /\ _medium_threshold = 40
    /\ _high_threshold = 80
    /\ rx \in TinyFrames \cup RawFrames \cup OddFrames
    /\ pc = "ready"
    /\ call = [op |-> "constructor", args |-> <<>>, ret |-> 0]
    /\ trace = <<>>
    /\ NoMonitor

GetStatus ==
    /\ pc = "ready"
    /\ \E id \in {power, disk1} :
        Called("get_status", <<id>>, get_status(<<>>, id, rx))

VerifyChecksum ==
    /\ pc = "ready"
    /\ Called("verify_checksum", <<rx>>, [t |-> <<>>, r |-> verify_checksum(rx)])

NextStatus == GetStatus \/ VerifyChecksum

SpecStatus == InitStatus /\ [][NextStatus]_vars

----------------------------------------------------------------------------
(* Properties of status frames (specification SpecStatus) *)

\* the sum of the bytes before the trailing two is non-zero and equals the
\* big-endian value of the trailing two
SumMatches(d) ==
    /\ Len(d) >= 2
    /\ SumFirst(d, Len(d) - 2) # 0
    /\ SumFirst(d, Len(d) - 2) = TrailerValue(d)

\* C6: zero-sum rejection: verify_checksum rejects every frame whose bytes
\* before the trailing two sum to zero, whatever the trailing two bytes,
\* and every frame shorter than 2 bytes; it accepts a frame only if the sum
\* is non-zero and equals the big-endian value of the trailing two bytes.
C6_ZeroSumRejected ==
    call.op = "verify_checksum" =>
        LET d == call.args[1] IN
        /\ Len(d) < 2 => call.ret = FALSE
        /\ (Len(d) >= 2 /\ SumFirst(d, Len(d) - 2) = 0) => call.ret = FALSE
        /\ call.ret = TRUE => SumMatches(d)

\* C6 witness: the all-zero 11-byte buffer was rejected
C6_Witness ==
    /\ call.op = "verify_checksum"
    /\ call.args[1] = [i \in 1..11 |-> 0]
    /\ call.ret = FALSE

\* C9: get_status returns is_available = true exactly when the block read
\* returned 11 bytes, their checksum is accepted and byte 0 is a mode in
\* 0..3; otherwise it returns is_available = false with no decoded field
\* set; it performs exactly one block read and nothing else.
C9_StatusAvailability ==
    call.op = "get_status" =>
        /\ call.ret.is_available <=> (Len(rx) = 11 /\ SumMatches(rx) /\ rx[1] \in 0..3)
        /\ ~call.ret.is_available =>
               call.ret = [is_available |-> FALSE, op_mode |-> 0, brightness |-> 0,
                           color_r |-> 0, color_g |-> 0, color_b |-> 0,
                           t_on |-> 0, t_off |-> 0]
        /\ trace = <<Event("read_block", 129 + call.args[1], rx, 11)>>

\* C27: for an accepted status frame get_status decodes brightness = byte 1,
\* colour = bytes 2..4, t_high = big-endian bytes 5..6, t_low = big-endian
\* bytes 7..8, t_on = t_low and t_off = t_high - t_low in 16 bits; when
\* t_high < t_low the snapshot is still available, t_off holding
\* (t_high - t_low) mod 2^16.  (rx[i + 1] is byte i.)
C27_StatusDecoding ==
    (call.op = "get_status" /\ Len(rx) = 11 /\ SumMatches(rx) /\ rx[1] \in 0..3) =>
        LET t_high == 256 * rx[6] + rx[7]
            t_low == 256 * rx[8] + rx[9]
        IN  /\ call.ret.is_available
            /\ call.ret.brightness = rx[2]
            /\ <<call.ret.color_r, call.ret.color_g, call.ret.color_b>> = <<rx[3], rx[4], rx[5]>>
            /\ call.ret.t_on = t_low
            /\ call.ret.t_off \in 0..65535
            /\ t_high >= t_low => call.ret.t_off = t_high - t_low
            /\ t_high < t_low => call.ret.t_off = t_high - t_low + 65536

\* C27 witness: t_high = 10 below t_low = 256 was decoded as available with
\* t_off = 65290
C27_Witness ==
    /\ call.op = "get_status"
    /\ call.ret.is_available
    /\ <<rx[6], rx[7], rx[8], rx[9]>> = <<0, 10, 1, 0>>
    /\ call.ret.t_on = 256
    /\ call.ret.t_off = 65290
    /\ call.ret.brightness = 200

\* C9 witness: a well-formed frame with an unrecognised mode byte and
\* non-zero fields was read as unavailable
C9_Witness ==
    /\ call.op = "get_status"
    /\ Len(rx) = 11
    /\ SumMatches(rx)
    /\ rx[1] = 4
    /\ rx[2] # 0
    /\ ~call.ret.is_available

----------------------------------------------------------------------------
(* The bandwidth monitor called by a driver: initialize at most once, and  *)
(* get_bandwidth_usage up to MaxCalls times.  Before each sample the clock *)
(* advances and the counter files hold whatever the kernel put there.      *)

MaxCalls == 2

\* milliseconds between two calls
DtSamples == {99, 100, 1000}

CapacitySamples == {0, 1, 2000}

\* capacity_mbps of the configuration: the default 2000 when the file has
\* no capacity_mbps key (nullopt), else the number std::stoul read
load_capacity_mbps(capacity_str) == value_or(capacity_str, 2000)

\* the capacity_mbps keys of the configuration files tried
CapacityTexts == {nullopt} \cup { some(c) : c \in CapacitySamples }

\* <<rx_bytes, tx_bytes>> of the interface
CounterPairs ==
    {<<0, 0>>, <<125000, 125000>>, <<UINT64_MAX - 50, 10>>, <<10, UINT64_MAX - 50>>,
     <<UINT64_MAX, 0>>}

\* both parsers can read the counters rx_bytes and tx_bytes
Readable(rx_bytes, tx_bytes) ==
    [sys |-> some([rx |-> some(rx_bytes), tx |-> some(tx_bytes)]),
     proc |-> some([rx |-> rx_bytes, tx |-> tx_bytes])]

\* what the counter files hold at a read: readable counters; no sysfs files
\* but a line in /proc/net/dev; nothing readable; a sysfs tx_bytes that does
\* not parse and no line in /proc/net/dev
NetSamples ==
    { Readable(p[1], p[2]) : p \in CounterPairs }
    \cup { [sys |-> nullopt, proc |-> some([rx |-> 20, tx |-> 30])],
           [sys |-> nullopt, proc |-> nullopt],
           [sys |-> some([rx |-> some(10), tx |-> nullopt]), proc |-> nullopt] }

\* one of the two parsers succeeds on net
CountersReadable(net) ==
    \/ net.sys # nullopt /\ net.sys[1].rx # nullopt /\ net.sys[1].tx # nullopt
    \/ net.proc # nullopt

InitMonitor ==
    /\ _current_state = "UTILIZATION_OFF"
    /\ _brightness = DEFAULT_BRIGHTNESS
    /\ _low_threshold = 10
    /\ _medium_threshold = 40
    /\ _high_threshold = 80
    /\ rx = <<>>
    /\ pc = "ready"
    /\ call = [op |-> "constructor", args |-> <<>>, ret |-> 0]
    /\ trace = <<>>
    /\ _capacity_mbps \in { load_capacity_mbps(c) : c \in CapacityTexts }
    /\ _last_stats = network_stats_t(0, 0, 0)
    /\ _initialized = FALSE
    /\ clock = 0
    /\ calls = 0
    /\ consecutive_failures = 0
    /\ g_running = 1
    /\ NotStarted

Initialize ==
    /\ pc = "ready"
    /\ \E exists \in BOOLEAN, net \in NetSamples :
        LET o == initialize(exists, net, clock) IN
        /\ _last_stats' = o.last
        /\ _initialized' = o.init
        /\ call' = [op |-> "initialize", args |-> <<exists, net>>, ret |-> o.r]
        /\ trace' = ReadEvents(o)
    /\ pc' = "running"
    /\ UNCHANGED <<_current_state, cfg, rx, _capacity_mbps, clock, calls, loop, prog>>

\* args: the baseline before the call, the counter files, the time of the call
GetBandwidthUsage ==
    /\ pc \in {"ready", "running"}
    /\ calls < MaxCalls
    /\ \E dt \in DtSamples, net \in NetSamples :
        LET now == clock + dt
            o == get_bandwidth_usage(net, now)
        IN  /\ clock' = now
            /\ _last_stats' = o.last
            /\ call' = [op |-> "get_bandwidth_usage", args |-> <<_last_stats, net, now>>,
                        ret |-> o.r]
            /\ trace' = ReadEvents(o)
    /\ calls' = calls + 1
    /\ UNCHANGED <<_current_state, cfg, rx, pc, _capacity_mbps, _initialized, loop, prog>>

NextMonitor == Initialize \/ GetBandwidthUsage

SpecMonitor == InitMonitor /\ [][NextMonitor]_vars

----------------------------------------------------------------------------
(* Properties of the bandwidth monitor (specification SpecMonitor) *)

IsSample(c) == c.op = "get_bandwidth_usage"

\* the baseline a sample call started from, the sample it read, and the
\* milliseconds between the two
Baseline(c) == c.args[1]
Sampled(c) == read_network_stats(c.args[2], c.args[3])
Elapsed(c) == c.args[3] - c.args[1].timestamp

\* C13 as stated: after initialize every get_bandwidth_usage call whose
\* counters were readable stores the sample it read as the new baseline,
\* whether it returns a valid or an invalid reading.
C13_Original ==
    [][ (IsSample(call') /\ _initialized /\ CountersReadable(call'.args[2])) =>
            _last_stats' = Sampled(call') ]_vars

\* C13: after initialize a get_bandwidth_usage call stores the sample it
\* read as the new baseline exactly when it returns a valid reading; a call
\* that returns an invalid reading leaves the baseline as it was, so every
\* valid reading is a delta against the sample of the last valid call (or
\* of initialize).
C13_BaselineOnlyOnValid ==
    [][ (IsSample(call') /\ _initialized) =>
            IF call'.ret.valid
            THEN _last_stats' = Sampled(call')
            ELSE _last_stats' = _last_stats ]_vars

\* C13 witness: after a call 99 ms after initialize, the next call 99 ms
\* later returned a valid reading over the 198 ms since initialize
C13_Witness ==
    /\ IsSample(call)
    /\ calls = 2
    /\ call.ret.valid
    /\ Elapsed(call) = 198
    /\ Baseline(call).timestamp = 0
    /\ _last_stats = Sampled(call)

\* C33: no traffic is lost across invalid samples: a call that returns an
\* invalid reading leaves the baseline untouched, and a call that returns a
\* valid reading without a counter wrap accounts, for rx and tx, exactly the
\* bytes by which it advances the baseline; so the bytes of the valid
\* readings add up to the counter at the last valid reading minus the
\* counter at initialize.
C33_NoTrafficLost ==
    [][ IsSample(call') =>
            IF ~call'.ret.valid THEN _last_stats' = _last_stats
            ELSE LET cur == Sampled(call')
                     Bytes(rate) == Times(rate, Rat(125 * Elapsed(call'), 1))
                 IN  /\ _last_stats' = cur
                     /\ cur.rx_bytes >= _last_stats.rx_bytes =>
                            Bytes(call'.ret.rx_mbps)
                              = Rat(_last_stats'.rx_bytes - _last_stats.rx_bytes, 1)
                     /\ cur.tx_bytes >= _last_stats.tx_bytes =>
                            Bytes(call'.ret.tx_mbps)
                              = Rat(_last_stats'.tx_bytes - _last_stats.tx_bytes, 1) ]_vars

\* C33 witness: the call 99 ms after initialize was invalid, and the call
\* 1000 ms later accounted the 125000 bytes received since initialize
C33_Witness ==
    /\ IsSample(call)
    /\ calls = 2
    /\ call.ret.valid
    /\ Elapsed(call) = 1099
    /\ Baseline(call) = network_stats_t(0, 0, 0)
    /\ _last_stats.rx_bytes = 125000
    /\ Times(call.ret.rx_mbps, Rat(125 * 1099, 1)) = Rat(125000, 1)

\* C14: after initialize, a get_bandwidth_usage call less than 100 ms after
\* the baseline returns valid = false whatever the counters hold, and a call
\* at least 100 ms after it whose counters were readable returns a valid
\* reading.
C14_MinimumIntervalGuard ==
    (IsSample(call) /\ _initialized) =>
        /\ Elapsed(call) < 100 => ~call.ret.valid
        /\ (Elapsed(call) >= 100 /\ CountersReadable(call.args[2])) => call.ret.valid

\* C15: the byte delta of each counter is current - previous when
\* current >= previous and (UINT64_MAX - previous) + current otherwise,
\* for rx and tx independently: each direction's rate is 8 * delta bits over
\* the elapsed time; previous = UINT64_MAX - 50 and current = 10 give 60.
C15_CounterDelta ==
    (IsSample(call) /\ call.ret.valid) =>
        LET prev == Baseline(call)
            cur == Sampled(call)
            Delta(c, q) == IF c >= q THEN c - q ELSE (UINT64_MAX - q) + c
            Rate(delta) == Rat(8 * delta, 1000 * Elapsed(call))
        IN  /\ call.ret.rx_mbps = Rate(Delta(cur.rx_bytes, prev.rx_bytes))
            /\ call.ret.tx_mbps = Rate(Delta(cur.tx_bytes, prev.tx_bytes))
            /\ (prev.rx_bytes = UINT64_MAX - 50 /\ cur.rx_bytes = 10) =>
                   call.ret.rx_mbps = Rate(60)
            /\ (prev.tx_bytes = UINT64_MAX - 50 /\ cur.tx_bytes = 10) =>
                   call.ret.tx_mbps = Rate(60)

\* C15 witness: rx wrapped from UINT64_MAX - 50 to 10 while tx only grew
C15_Witness ==
    /\ IsSample(call)
    /\ call.ret.valid
    /\ Baseline(call).rx_bytes = UINT64_MAX - 50
    /\ Sampled(call).rx_bytes = 10
    /\ Sampled(call).tx_bytes > Baseline(call).tx_bytes
    /\ call.ret.rx_mbps = Rat(8 * 60, 1000 * Elapsed(call))

\* C16: across a wraparound (current < previous) the byte delta of a valid
\* reading equals (current - previous) modulo the counter width, the number
\* of bytes a free-running counter has counted.
C16_ModularDelta ==
    (IsSample(call) /\ call.ret.valid) =>
        LET prev == Baseline(call)
            cur == Sampled(call)
            Delta(c, q) == (c - q) % (UINT64_MAX + 1)
            Rate(delta) == Rat(8 * delta, 1000 * Elapsed(call))
        IN  /\ cur.rx_bytes < prev.rx_bytes =>
                   call.ret.rx_mbps = Rate(Delta(cur.rx_bytes, prev.rx_bytes))
            /\ cur.tx_bytes < prev.tx_bytes =>
                   call.ret.tx_mbps = Rate(Delta(cur.tx_bytes, prev.tx_bytes))

\* C17: every valid reading of a monitor with a non-zero capacity has
\* total_mbps = rx_mbps + tx_mbps and a finite usage_percentage in
\* [0, 100]: total / capacity * 100, replaced by 100 when it exceeds 100.
C17_TotalAndClamp ==
    (IsSample(call) /\ call.ret.valid /\ _capacity_mbps # 0) =>
        LET usage == call.ret.usage_percentage
            raw == Times(Over(call.ret.total_mbps, Rat(_capacity_mbps, 1)), Rat(100, 1))
        IN  /\ call.ret.total_mbps = Plus(call.ret.rx_mbps, call.ret.tx_mbps)
            /\ usage[2] # 0
            /\ ~Less(usage, Zero)
            /\ ~Less(Rat(100, 1), usage)
            /\ usage = IF Less(Rat(100, 1), raw) THEN Rat(100, 1) ELSE raw

\* C17 witness: a valid reading above the capacity, clamped to 100
C17_Witness ==
    /\ IsSample(call)
    /\ call.ret.valid
    /\ _capacity_mbps = 1
    /\ Less(Rat(100, 1),
            Times(Over(call.ret.total_mbps, Rat(_capacity_mbps, 1)), Rat(100, 1)))
    /\ call.ret.usage_percentage = Rat(100, 1)

\* C29: initialize succeeds only if the interface exists and a counter sample
\* could be read, and then the sample read is the baseline; it fails when the
\* interface is missing or the counters are unreadable. While the monitor is
\* not initialised a sample is invalid and reads no counters, and a sample
\* whose counters are unreadable is invalid.
C29_InitializeAndInvalidSamples ==
    /\ call.op = "initialize" =>
           LET exists == call.args[1]
               net == call.args[2]
           IN  /\ call.ret = TRUE =>
                      /\ exists
                      /\ CountersReadable(net)
                      /\ _initialized
                      /\ Len(trace) = 1
                      /\ _last_stats = read_network_stats(net, clock)
               /\ (~exists \/ ~CountersReadable(net)) =>
                      call.ret = FALSE /\ ~_initialized
               /\ ~exists => trace = <<>>
    /\ IsSample(call) =>
           /\ ~_initialized => ~call.ret.valid /\ trace = <<>>
           /\ ~CountersReadable(call.args[2]) => ~call.ret.valid

\* C29 witness: after a failed initialize, a sample found readable counters a
\* second later and still returned an invalid reading without reading them
C29_Witness ==
    /\ IsSample(call)
    /\ pc = "running"
    /\ ~_initialized
    /\ CountersReadable(call.args[2])
    /\ Elapsed(call) >= 1000
    /\ ~call.ret.valid
    /\ trace = <<>>

\* C28: the capacity used in the usage-percentage division is never 0: for
\* every configuration the parser accepts, capacity_mbps = 0 included, a
\* call of get_bandwidth_usage that computes a reading (total / capacity)
\* does so with a non-zero capacity.
C28_CapacityNonZero ==
    (IsSample(call) /\ call.ret.valid) => _capacity_mbps # 0

\* C19: each direction's rate is delta_bytes * 8 / (elapsed seconds *
\* 1,000,000); deltas of 125,000 bytes in both directions over 1000 ms with
\* capacity 2000 give rx_mbps = 1, tx_mbps = 1, total_mbps = 2 and a usage
\* of 0.1 %, which the classifier with thresholds 10/40/80 maps to OFF.
C19_Throughput ==
    (IsSample(call) /\ call.ret.valid) =>
        LET prev == Baseline(call)
            cur == Sampled(call)
            rx_delta == counter_diff(cur.rx_bytes, prev.rx_bytes)
            tx_delta == counter_diff(cur.tx_bytes, prev.tx_bytes)
            megaseconds == Times(Rat(Elapsed(call), 1000), Rat(1000000, 1))
        IN  /\ Times(call.ret.rx_mbps, megaseconds) = Rat(8 * rx_delta, 1)
            /\ Times(call.ret.tx_mbps, megaseconds) = Rat(8 * tx_delta, 1)
            /\ (/\ rx_delta = 125000
                /\ tx_delta = 125000
                /\ Elapsed(call) = 1000
                /\ _capacity_mbps = 2000) =>
                   /\ call.ret.rx_mbps = Rat(1, 1)
                   /\ call.ret.tx_mbps = Rat(1, 1)
                   /\ call.ret.total_mbps = Rat(2, 1)
                   /\ call.ret.usage_percentage = Rat(1, 10)
                   /\ <<_low_threshold, _medium_threshold, _high_threshold>> = <<10, 40, 80>>
                   /\ determine_state_from_usage(call.ret.usage_percentage) = "UTILIZATION_OFF"

\* C19 witness: 125,000 bytes each way over 1000 ms on a 2000 Mbps link
C19_Witness ==
    /\ IsSample(call)
    /\ call.ret.valid
    /\ Baseline(call).rx_bytes = 0
    /\ Baseline(call).tx_bytes = 0
    /\ Sampled(call).rx_bytes = 125000
    /\ Sampled(call).tx_bytes = 125000
    /\ Elapsed(call) = 1000
    /\ _capacity_mbps = 2000
    /\ call.ret.usage_percentage = Rat(1, 10)

----------------------------------------------------------------------------
(* The classifier of a state manager constructed with any thresholds the   *)
(* configuration parser accepts, called once.                              *)

\* threshold percentages (the parser accepts 0..100 for each)
ThresholdSamples == {0, 10, 40, 80, 100}

\* usage percentages at and just below the thresholds
ClassifierUsages ==
    {Zero, Rat(999, 100), Rat(10, 1), Rat(3999, 100), Rat(40, 1), Rat(7999, 100),
     Rat(80, 1), Rat(100, 1)}

InitClassifier ==
    /\ _current_state = "UTILIZATION_OFF"
    /\ _brightness = DEFAULT_BRIGHTNESS
    /\ _low_threshold \in ThresholdSamples
    /\ _medium_threshold \in ThresholdSamples
    /\ _high_threshold \in ThresholdSamples
    /\ rx = <<>>
    /\ pc = "ready"
    /\ call = [op |-> "constructor", args |-> <<>>, ret |-> 0]
    /\ trace = <<>>
    /\ NoMonitor

DetermineStateFromUsage ==
    /\ pc = "ready"
    /\ \E usage \in ClassifierUsages :
        Called("determine_state_from_usage", <<usage>>,
               [t |-> <<>>, r |-> determine_state_from_usage(usage)])

NextClassifier == DetermineStateFromUsage

SpecClassifier == InitClassifier /\ [][NextClassifier]_vars

----------------------------------------------------------------------------
(* Properties of the classifier (specification SpecClassifier) *)

\* C18: with low <= medium <= high the classifier maps a usage u to one
\* state by half-open bands: u < low gives OFF, low <= u < medium gives
\* NETDEV_GREEN, medium <= u < high gives NETDEV_DISK1_BLUE, u >= high gives
\* ALL_UTILIZATION_RED; a usage equal to a threshold is in the upper band
\* (thresholds 10/40/80: 10 gives green, 40 blue, 80 and 100 red).
C18_HalfOpenBands ==
    (/\ call.op = "determine_state_from_usage"
     /\ _low_threshold <= _medium_threshold
     /\ _medium_threshold <= _high_threshold) =>
        LET u == call.args[1]
            low == Rat(_low_threshold, 1)
            medium == Rat(_medium_threshold, 1)
            high == Rat(_high_threshold, 1)
        IN  /\ Less(u, low) => call.ret = "UTILIZATION_OFF"
            /\ (~Less(u, low) /\ Less(u, medium)) => call.ret = "NETDEV_GREEN"
            /\ (~Less(u, medium) /\ Less(u, high)) => call.ret = "NETDEV_DISK1_BLUE"
            /\ ~Less(u, high) => call.ret = "ALL_UTILIZATION_RED"
            /\ <<_low_threshold, _medium_threshold, _high_threshold>> = <<10, 40, 80>> =>
                   /\ u = Rat(10, 1) => call.ret = "NETDEV_GREEN"
                   /\ u = Rat(40, 1) => call.ret = "NETDEV_DISK1_BLUE"
                   /\ u = Rat(80, 1) => call.ret = "ALL_UTILIZATION_RED"
                   /\ u = Rat(100, 1) => call.ret = "ALL_UTILIZATION_RED"

\* C18 witness: with thresholds 10/40/80 a usage of exactly 40 % gave blue
C18_Witness ==
    /\ call.op = "determine_state_from_usage"
    /\ <<_low_threshold, _medium_threshold, _high_threshold>> = <<10, 40, 80>>
    /\ call.args[1] = Rat(40, 1)
    /\ call.ret = "NETDEV_DISK1_BLUE"

----------------------------------------------------------------------------
(* Normal mode: run_normal_mode polling the monitor and feeding the state  *)
(* manager, step by step (pc is its position), with the signal handler     *)
(* clearing g_running at any time.  The same state manager can instead be  *)
(* called once by a direct caller of update_leds (pc = "ready").           *)

MaxPolls == 3

max_failures == 10

\* std::this_thread::sleep_for(std::chrono::seconds(1)), in milliseconds
PollSleep == 1000

\* the counter files during normal mode, read once per poll; on the 1 Mbps
\* link of InitNormal the deltas between them reach every band
LoopNetSamples ==
    { Readable(0, 0), Readable(20000, 0), Readable(80000, 0), Readable(125000, 125000),
      [sys |-> nullopt, proc |-> nullopt] }

InitNormal ==
    /\ _brightness = DEFAULT_BRIGHTNESS
    /\ _low_threshold = 10
    /\ _medium_threshold = 40
    /\ _high_threshold = 80
    /\ rx = <<>>
    /\ \/ pc = "normal_start" /\ _current_state = "UTILIZATION_OFF"
       \/ pc = "ready" /\ _current_state \in led_state_t
    /\ call = [op |-> "constructor", args |-> <<>>, ret |-> 0]
    /\ trace = <<>>
    /\ _capacity_mbps = 1
    /\ _last_stats = network_stats_t(0, 0, 0)
    /\ _initialized = FALSE
    /\ clock = 0
    /\ calls = 0
    /\ consecutive_failures = 0
    /\ g_running = 1
    /\ NotStarted

\* bandwidth_monitor.initialize(), then the first sleep
initialize_monitor(nets) ==
    /\ pc = "normal_start"
    /\ \E exists \in BOOLEAN, net \in nets :
        LET o == initialize(exists, net, clock) IN
        /\ _last_stats' = o.last
        /\ _initialized' = o.init
        /\ call' = [op |-> "initialize", args |-> <<exists, net>>, ret |-> o.r]
        /\ pc' = IF o.r THEN "loop" ELSE "exited"
        /\ clock' = IF o.r THEN clock + PollSleep ELSE clock
        /\ trace' = ReadEvents(o)
        /\ success' = IF o.r THEN success ELSE FALSE
    /\ consecutive_failures' = 0
    /\ UNCHANGED <<_current_state, cfg, rx, _capacity_mbps, calls, g_running, leds,
                   current_state>>

NormalInitialize == initialize_monitor(LoopNetSamples)

\* while (g_running) { bandwidth_info = get_bandwidth_usage(); ...
sample_in_loop(nets, polls) ==
    /\ pc = "loop"
    /\ g_running = 1
    /\ calls < polls
    /\ \E net \in nets :
        LET o == get_bandwidth_usage(net, clock) IN
        /\ _last_stats' = o.last
        /\ call' = [op |-> "get_bandwidth_usage", args |-> <<_last_stats, net, clock>>,
                    ret |-> o.r]
        /\ trace' = ReadEvents(o)
    /\ calls' = calls + 1
    /\ pc' = "sampled"
    /\ UNCHANGED <<_current_state, cfg, rx, _capacity_mbps, _initialized, clock, loop, prog>>

NormalSample == sample_in_loop(LoopNetSamples, MaxPolls)

\* ... if (bandwidth_info.valid) { update_leds(bandwidth_info) } sleep ...
\* the loop counting a failed update_leds as a failed poll
update_in_loop_counts_failures ==
    /\ pc = "sampled"
    /\ call.ret.valid
    /\ g_running' \in {g_running, 0}
    /\ update_leds(call.ret)
    /\ consecutive_failures' = IF call'.ret THEN 0 ELSE consecutive_failures + 1
    /\ clock' = clock + PollSleep
    /\ pc' = "loop"
    /\ UNCHANGED <<mon, calls>>

\* the loop abandoning an apply after its power step when the signal handler
\* ran meanwhile
update_in_loop_stops_when_cancelled ==
    /\ pc = "sampled"
    /\ call.ret.valid
    /\ g_running' \in {g_running, 0}
    /\ IF g_running' = 0
            /\ determine_state_from_usage(call.ret.usage_percentage) # _current_state
         THEN \E p \in set_led_state(<<>>, LEDCTL_LED_POWER, TRUE, COLOR_WHITE, _brightness) :
                /\ trace' = p.t
                /\ call' = [op |-> "update_leds", args |-> <<call.ret>>, ret |-> FALSE]
                /\ UNCHANGED <<_current_state, cfg, rx>>
         ELSE update_leds(call.ret)
    /\ consecutive_failures' = 0
    /\ clock' = clock + PollSleep
    /\ pc' = "loop"
    /\ UNCHANGED <<mon, calls>>

\* the signal handler may run at any point of the update and of the sleep
update_in_loop ==
    /\ pc = "sampled"
    /\ call.ret.valid
    /\ g_running' \in {g_running, 0}
    /\ update_leds(call.ret)
    /\ consecutive_failures' = 0
    /\ clock' = clock + PollSleep
    /\ pc' = "loop"
    /\ UNCHANGED <<mon, calls>>

NormalUpdate == update_in_loop /\ UNCHANGED prog

\* ... else { consecutive_failures++; return false at max_failures } sleep }
NormalInvalid ==
    /\ pc = "sampled"
    /\ ~call.ret.valid
    /\ consecutive_failures' = consecutive_failures + 1
    /\ IF consecutive_failures + 1 >= max_failures
         THEN pc' = "exited" /\ success' = FALSE /\ UNCHANGED clock
         ELSE pc' = "loop" /\ clock' = clock + PollSleep /\ UNCHANGED success
    /\ UNCHANGED <<_current_state, cfg, rx, call, trace, mon, calls, g_running, leds,
                   current_state>>

\* the loop condition found g_running cleared: return true
NormalCompleted ==
    /\ pc = "loop"
    /\ g_running = 0
    /\ pc' = "exited"
    /\ success' = TRUE
    /\ UNCHANGED <<_current_state, cfg, rx, call, trace, mon, clock, calls, loop, leds,
                   current_state>>

\* signal_handler
Signal ==
    /\ pc \in {"main_start", "main_start_test", "normal_start", "loop", "sampled",
              "test_loop"}
    /\ g_running = 1
    /\ g_running' = 0
    /\ UNCHANGED <<_current_state, cfg, rx, pc, call, trace, mon, clock, calls,
                   consecutive_failures, prog>>

\* a direct caller's single update_leds
DirectUpdateLeds ==
    /\ pc = "ready"
    /\ \E bi \in BandwidthInfos : update_leds(bi)
    /\ pc' = "done"
    /\ UNCHANGED <<mon, clock, calls, loop, prog>>

NextNormal ==
    \/ NormalInitialize
    \/ NormalSample
    \/ NormalUpdate
    \/ NormalInvalid
    \/ NormalCompleted
    \/ Signal
    \/ DirectUpdateLeds

SpecNormal == InitNormal /\ [][NextNormal]_vars

----------------------------------------------------------------------------
(* Properties of normal mode (specification SpecNormal) *)

\* C20: an invalid reading is never consumed: update_leds with valid = false
\* returns failure, issues no bus traffic and leaves the recorded state
\* unchanged, and the update_leds call of the normal-mode loop is always
\* made with the valid reading just sampled.
C20_InvalidNeverConsumed ==
    [][ call'.op = "update_leds" =>
            /\ ~call'.args[1].valid =>
                   /\ call'.ret = FALSE
                   /\ trace' = <<>>
                   /\ _current_state' = _current_state
            /\ pc = "sampled" =>
                   /\ call'.args[1].valid
                   /\ call.op = "get_bandwidth_usage"
                   /\ call'.args[1] = call.ret ]_vars

\* C20 witness: update_leds was called with an invalid reading while the
\* recorded state was not OFF; it failed without traffic
C20_Witness ==
    /\ call.op = "update_leds"
    /\ ~call.args[1].valid
    /\ call.ret = FALSE
    /\ trace = <<>>
    /\ _current_state = "NETDEV_DISK1_BLUE"

\* C22: a failed update_leds is never escalated and the next cycle can
\* recover from it: the cycle that called update_leds goes back to the head of
\* the loop with the failure run at zero whatever update_leds returned, and a
\* cycle whose classified target differs from the recorded state attempts the
\* apply again from the power LED; when every write of that attempt is
\* accepted all four LEDs were written and the recorded state is the target.
C22_ApplyFailureRecoverable ==
    [][ (pc = "sampled" /\ call'.op = "update_leds") =>
            /\ pc' = "loop"
            /\ consecutive_failures' = 0
            /\ Target(call') # _current_state =>
                   /\ Writes(trace') # <<>>
                   /\ Writes(trace')[1].addr = power
                   /\ ~AnyWriteFailed(trace') =>
                          /\ \A id \in {power, netdev, disk1, disk2} :
                                 WritesOf(trace', id) # <<>>
                          /\ call'.ret = TRUE
                          /\ _current_state' = Target(call') ]_vars

\* C22 witness: an update_leds of the loop failed on a rejected write, the
\* recorded state is not the target, and the loop is at its head with the
\* failure run at zero and polls still to come
C22_Witness ==
    /\ pc = "loop"
    /\ call.op = "update_leds"
    /\ call.ret = FALSE
    /\ AnyWriteFailed(trace)
    /\ _current_state # Target(call)
    /\ consecutive_failures = 0
    /\ g_running = 1
    /\ calls < MaxPolls

----------------------------------------------------------------------------
(* Normal mode polled long enough for the failure limit to be reached *)

MaxLongPolls == 12

\* the counter files of an idle link, or no readable counters
PollNetSamples == { Readable(0, 0), [sys |-> nullopt, proc |-> nullopt] }

InitPolling ==
    /\ _current_state = "UTILIZATION_OFF"
    /\ _brightness = DEFAULT_BRIGHTNESS
    /\ _low_threshold = 10
    /\ _medium_threshold = 40
    /\ _high_threshold = 80
    /\ rx = <<>>
    /\ pc = "normal_start"
    /\ call = [op |-> "constructor", args |-> <<>>, ret |-> 0]
    /\ trace = <<>>
    /\ _capacity_mbps = 1
    /\ _last_stats = network_stats_t(0, 0, 0)
    /\ _initialized = FALSE
    /\ clock = 0
    /\ calls = 0
    /\ consecutive_failures = 0
    /\ g_running = 1
    /\ NotStarted

PollingSample == sample_in_loop(PollNetSamples, MaxLongPolls)

NextPolling ==
    \/ NormalInitialize
    \/ PollingSample
    \/ NormalUpdate
    \/ NormalInvalid
    \/ NormalCompleted
    \/ Signal

SpecPolling == InitPolling /\ [][NextPolling]_vars

\* the loop ended by the failure limit: return false out of the poll
FatalExit == pc = "sampled" /\ pc' = "exited"

\* C21: the polling loop is ended as fatal only when the run of consecutive
\* invalid samples has gone beyond 10; an invalid sample that leaves the run
\* below 10 keeps the loop going, and a valid sample resets the run to zero.
C21_FatalOnlyBeyondLimit ==
    [][ /\ FatalExit => consecutive_failures' > max_failures
        /\ (pc = "sampled" /\ ~call.ret.valid /\ pc' # "sampled"
               /\ consecutive_failures' < max_failures) => pc' = "loop"
        /\ (pc = "sampled" /\ call.ret.valid /\ pc' # "sampled") =>
               consecutive_failures' = 0 ]_vars

\* C21: the loop was ended as fatal by the tenth consecutive invalid sample
C21_FatalAtLimit ==
    /\ pc = "exited"
    /\ g_running = 1
    /\ consecutive_failures = max_failures
    /\ ~call.ret.valid

----------------------------------------------------------------------------
(* The whole program: main's startup, normal mode or testing mode, and the *)
(* shutdown, with the board the accepted writes leave behind.              *)

MaxMainPolls == 2

\* an accepted on-off command switches the LED, an accepted set-color command
\* sets its color; a rejected write changes nothing
apply_write(l, e) ==
    IF ~(IsWrite(e) /\ e.res = 0 /\ e.addr \in DOMAIN l) THEN l
    ELSE IF Opcode(e) = 3 THEN [l EXCEPT ![e.addr].on = Params(e)[1]]
    ELSE IF Opcode(e) = 2
         THEN [l EXCEPT ![e.addr].color =
                            [r |-> Params(e)[1], g |-> Params(e)[2], b |-> Params(e)[3]]]
    ELSE l

\* the board l after the transactions of trace t
RECURSIVE written(_, _)
written(l, t) == IF t = <<>> THEN l ELSE written(apply_write(l, Head(t)), Tail(t))

\* the counter files while the whole program runs: an idle link, 16 % of
\* the 1 Mbps link since the idle reading, or nothing readable
MainNetSamples ==
    { Readable(0, 0), Readable(20000, 0), [sys |-> nullopt, proc |-> nullopt] }

\* test_states[].usage_percentage
test_states == <<Rat(5, 1), Rat(25, 1), Rat(60, 1), Rat(90, 1)>>
state_count == Len(test_states)

\* bandwidth_info_t fake_bandwidth
fake_bandwidth(usage) ==
    [rx_mbps |-> Times(usage, Rat(10, 1)), tx_mbps |-> Times(usage, Rat(10, 1)),
     total_mbps |-> Times(usage, Rat(20, 1)), usage_percentage |-> usage, valid |-> TRUE]

\* main after led_controller.start() succeeded; pc is "main_start_test" when
\* the testing option was given
InitMain ==
    /\ _current_state = "UTILIZATION_OFF"
    /\ _brightness = DEFAULT_BRIGHTNESS
    /\ _low_threshold = 10
    /\ _medium_threshold = 40
    /\ _high_threshold = 80
    /\ rx = <<>>
    /\ pc \in {"main_start", "main_start_test"}
    /\ call = [op |-> "constructor", args |-> <<>>, ret |-> 0]
    /\ trace = <<>>
    /\ _capacity_mbps = 1
    /\ _last_stats = network_stats_t(0, 0, 0)
    /\ _initialized = FALSE
    /\ clock = 0
    /\ calls = 0
    /\ consecutive_failures = 0
    /\ g_running = 1
    /\ NotStarted

\* state_manager.set_state(UTILIZATION_OFF), its result not looked at
Startup ==
    /\ pc \in {"main_start", "main_start_test"}
    /\ set_state("UTILIZATION_OFF")
    /\ leds' = written(leds, trace')
    /\ pc' = IF pc = "main_start_test" THEN "test_loop" ELSE "normal_start"
    /\ UNCHANGED <<mon, clock, calls, loop, current_state, success>>

MainInitialize == initialize_monitor(MainNetSamples)

MainSample == sample_in_loop(MainNetSamples, MaxMainPolls)

MainUpdate ==
    /\ update_in_loop
    /\ leds' = written(leds, trace')
    /\ UNCHANGED <<current_state, success>>

\* one iteration of run_testing_mode; no clock is read in testing mode
TestUpdate ==
    /\ pc = "test_loop"
    /\ g_running = 1
    /\ g_running' \in {g_running, 0}
    /\ update_leds(fake_bandwidth(test_states[current_state + 1]))
    /\ leds' = written(leds, trace')
    /\ IF call'.ret
         THEN /\ pc' = "test_loop"
              /\ current_state' = (current_state + 1) % state_count
              /\ UNCHANGED success
         ELSE pc' = "exited" /\ success' = FALSE /\ UNCHANGED current_state
    /\ UNCHANGED <<mon, clock, calls, consecutive_failures>>

\* the loop condition of run_testing_mode found g_running cleared
TestCompleted ==
    /\ pc = "test_loop"
    /\ g_running = 0
    /\ pc' = "exited"
    /\ success' = TRUE
    /\ UNCHANGED <<_current_state, cfg, rx, call, trace, mon, clock, calls, loop, leds,
                   current_state>>

\* main reporting failure when its final turn_off_all_leds failed
Shutdown_reports_turn_off ==
    /\ pc = "exited"
    /\ \E o \in turn_off_all_leds(<<>>) :
        /\ trace' = o.t
        /\ call' = [op |-> "turn_off_all_leds", args |-> <<>>, ret |-> o.r]
        /\ leds' = written(leds, o.t)
        /\ success' = (success /\ o.r = 0)
    /\ pc' = "terminated"
    /\ UNCHANGED <<_current_state, cfg, rx, mon, clock, calls, loop, current_state>>

\* main turning the LEDs off only after a loop that ended in success
Shutdown_only_after_success ==
    /\ pc = "exited"
    /\ IF success
         THEN \E o \in turn_off_all_leds(<<>>) :
                /\ trace' = o.t
                /\ call' = [op |-> "turn_off_all_leds", args |-> <<>>, ret |-> o.r]
                /\ leds' = written(leds, o.t)
         ELSE UNCHANGED <<trace, call, leds>>
    /\ pc' = "terminated"
    /\ UNCHANGED <<_current_state, cfg, rx, mon, clock, calls, loop, current_state, success>>

\* led_controller.turn_off_all_leds() before main returns
Shutdown ==
    /\ pc = "exited"
    /\ \E o \in turn_off_all_leds(<<>>) :
        /\ trace' = o.t
        /\ call' = [op |-> "turn_off_all_leds", args |-> <<>>, ret |-> o.r]
        /\ leds' = written(leds, o.t)
    /\ pc' = "terminated"
    /\ UNCHANGED <<_current_state, cfg, rx, mon, clock, calls, loop, current_state, success>>

\* return success ? 0 : 1
exit_status == IF success THEN 0 ELSE 1

NextMain ==
    \/ Startup
    \/ MainInitialize
    \/ MainSample
    \/ MainUpdate
    \/ NormalInvalid
    \/ NormalCompleted
    \/ TestUpdate
    \/ TestCompleted
    \/ Signal
    \/ Shutdown

SpecMain == InitMain /\ [][NextMain]_vars

----------------------------------------------------------------------------
(* Properties of the whole program (specification SpecMain) *)

\* the writes of trace t are a whole apply towards state: the power sequence,
\* and once its on-off was accepted the sequence of every utilisation LED,
\* each cut only by a rejected write of its own
IsWholeApply(t, state) ==
    LET tg == get_target_led_states(state)
        on == [i \in {netdev, disk1, disk2} |->
                 IF i = netdev THEN tg.netdev_on
                 ELSE IF i = disk1 THEN tg.disk1_on ELSE tg.disk2_on]
    IN  /\ IsSetOnSequence(WritesOf(t, power), COLOR_WHITE, _brightness)
        /\ \A id \in {netdev, disk1, disk2} :
              IF ~PowerStepSucceeded(t) THEN WritesOf(t, id) = <<>>
              ELSE IF on[id] THEN IsSetOnSequence(WritesOf(t, id), tg.color, _brightness)
              ELSE IsTurnOffSequence(WritesOf(t, id))

\* the step is an update_leds call of the normal-mode or of the testing loop
IsLoopUpdate ==
    \/ pc = "sampled" /\ call.ret.valid /\ pc' = "loop"
    \/ pc = "test_loop" /\ g_running = 1 /\ (pc' = "exited" \/ current_state' # current_state)

\* C23: a shutdown request takes effect only between polling cycles: an
\* update_leds of either loop whose target differs from the recorded state
\* issues a whole apply also when g_running is cleared before or during it,
\* a cycle holding a valid reading never leaves the loop, the loop is left on
\* a cleared g_running only from its head, and turn_off_all_leds runs only
\* after the loop was left.
C23_ShutdownBetweenCycles ==
    [][ /\ (IsLoopUpdate /\ Target(call') # _current_state) =>
               IsWholeApply(trace', Target(call'))
        /\ (pc = "sampled" /\ call.ret.valid) => pc' \in {"sampled", "loop"}
        /\ (IsLoopUpdate /\ pc' = "exited") => call'.ret = FALSE
        /\ (pc \in {"loop", "test_loop"} /\ pc' = "exited" /\ ~IsLoopUpdate) =>
               g_running = 0
        /\ (pc' = "terminated" /\ pc # "terminated") =>
               (pc = "exited" /\ call'.op = "turn_off_all_leds") ]_vars

\* C23 witness: g_running was cleared no later than the end of an apply of
\* the normal-mode loop, and that apply wrote all four LEDs without a
\* rejected write
C23_Witness ==
    /\ pc = "loop"
    /\ g_running = 0
    /\ call.op = "update_leds"
    /\ call.ret = TRUE
    /\ \A id \in {power, netdev, disk1, disk2} : WritesOf(trace, id) # <<>>

\* C24: while either polling loop runs the power LED is on and white: its
\* on-off(1) and its white were accepted since startup and nothing switched
\* it off since.
C24_PowerOnWhileRunning ==
    pc \in {"loop", "sampled", "test_loop"} =>
        /\ leds[power].on = 1
        /\ leds[power].color = COLOR_WHITE

\* the utilisation LEDs of board l show the tuple of state
BoardShows(l, state) ==
    LET tg == get_target_led_states(state)
        on == [i \in {netdev, disk1, disk2} |->
                 IF i = netdev THEN tg.netdev_on
                 ELSE IF i = disk1 THEN tg.disk1_on ELSE tg.disk2_on]
    IN  \A id \in {netdev, disk1, disk2} :
            IF on[id] THEN l[id].on = 1 /\ l[id].color = tg.color
            ELSE l[id].on = 0

\* C30: an update_leds of the loop whose classified target is the recorded
\* state is skipped whatever the board shows: it returns success, writes
\* nothing and leaves the board and the recorded state as they were, also
\* after a failed apply left LEDs written with another state's values.
C30_SkipIgnoresBoard ==
    [][ (IsLoopUpdate /\ Target(call') = _current_state) =>
            /\ call'.ret = TRUE
            /\ trace' = <<>>
            /\ leds' = leds
            /\ _current_state' = _current_state ]_vars

\* C30 witness: the apply towards green of the first poll switched netdev on
\* and green and then failed, the recorded state stayed OFF, and the second
\* poll's update towards OFF was skipped with success: netdev is on and green
\* under a recorded state whose tuple has it off
C30_Witness ==
    /\ pc = "loop"
    /\ calls = 2
    /\ call.op = "update_leds"
    /\ call.ret = TRUE
    /\ trace = <<>>
    /\ Target(call) = "UTILIZATION_OFF"
    /\ _current_state = "UTILIZATION_OFF"
    /\ leds[netdev].on = 1
    /\ leds[netdev].color = COLOR_GREEN
    /\ ~BoardShows(leds, _current_state)

----------------------------------------------------------------------------
(* Testing mode under the thresholds a configuration file can set *)

\* low, medium and high threshold as load_config_from_file accepts them: each
\* within 0..100, in any order
TestThresholds ==
    { <<10, 40, 80>>, <<30, 40, 80>>, <<5, 25, 60>>, <<0, 0, 0>>, <<100, 100, 100>>,
      <<80, 40, 10>> }

InitTest ==
    /\ _current_state = "UTILIZATION_OFF"
    /\ _brightness = DEFAULT_BRIGHTNESS
    /\ \E th \in TestThresholds :
          /\ _low_threshold = th[1]
          /\ _medium_threshold = th[2]
          /\ _high_threshold = th[3]
    /\ rx = <<>>
    /\ pc = "main_start_test"
    /\ call = [op |-> "constructor", args |-> <<>>, ret |-> 0]
    /\ trace = <<>>
    /\ NoMonitor

NextTest ==
    \/ Startup
    \/ TestUpdate
    \/ TestCompleted
    \/ Signal
    \/ Shutdown

SpecTest == InitTest /\ [][NextTest]_vars

\* the states the descriptions of test_states announce, in order
StateCycle == <<"UTILIZATION_OFF", "NETDEV_GREEN", "NETDEV_DISK1_BLUE", "ALL_UTILIZATION_RED">>

\* C25: under every configured threshold set, an iteration of testing mode
\* whose writes are all accepted leaves the recorded state at the state of
\* its place in the cycle OFF, green, blue, red and moves on to the next
\* place, the place after red being OFF again.
C25_TestCyclesAllStates ==
    [][ (pc = "test_loop" /\ IsLoopUpdate /\ ~AnyWriteFailed(trace')) =>
            /\ _current_state' = StateCycle[current_state + 1]
            /\ pc' = "test_loop"
            /\ current_state' = (current_state + 1) % state_count ]_vars

\* C25: with the low threshold at 30 the second iteration, 25 % of usage,
\* was skipped with the recorded state still OFF
C25_GreenSkipped ==
    /\ pc = "test_loop"
    /\ _low_threshold = 30
    /\ current_state = 2
    /\ call.op = "update_leds"
    /\ call.args[1].usage_percentage = Rat(25, 1)
    /\ call.ret = TRUE
    /\ _current_state = "UTILIZATION_OFF"

----------------------------------------------------------------------------
(* Blink and breath timing written by set_blink / set_breath and read back *)
(* by get_status                                                           *)

\* the status frame of an LED in mode op_mode that holds the four timing
\* bytes p of a written command
status_frame(op_mode, p) ==
    append_checksum(<<op_mode, DEFAULT_BRIGHTNESS, 255, 255, 255, p[1], p[2], p[3], p[4]>>)

InitTiming ==
    /\ _current_state = "UTILIZATION_OFF"
    /\ _brightness = DEFAULT_BRIGHTNESS
    /\ _low_threshold = 10
    /\ _medium_threshold = 40
    /\ _high_threshold = 80
    /\ rx = <<>>
    /\ pc = "ready"
    /\ call = [op |-> "constructor", args |-> <<>>, ret |-> 0]
    /\ trace = <<>>
    /\ NoMonitor

\* set_blink or set_breath, then get_status on a device that answers with
\* the timing bytes of the command it was sent
TimingRoundTrip ==
    /\ pc = "ready"
    /\ \E command \in {4, 5}, id \in {power, disk1}, t_on \in U16Samples, t_off \in U16Samples :
        \E w \in _set_blink_or_breath(<<>>, command, id, t_on, t_off) :
            LET raw_data == status_frame(command - 2, Params(Writes(w.t)[1]))
                g == get_status(w.t, id, raw_data)
            IN  /\ rx' = raw_data
                /\ trace' = g.t
                /\ call' = [op |-> "timing_round_trip", args |-> <<command, id, t_on, t_off>>,
                            ret |-> g.r]
    /\ pc' = "done"
    /\ UNCHANGED <<_current_state, cfg, mon, clock, calls, loop, prog>>

NextTiming == TimingRoundTrip

SpecTiming == InitTiming /\ [][NextTiming]_vars

\* C38: for all 16-bit t_on and t_off, the pairs whose sum passes 65535
\* included, get_status decodes the timing bytes that set_blink / set_breath
\* wrote back to the original t_on and t_off.
C38_TimingRoundTrip ==
    call.op = "timing_round_trip" =>
        /\ call.ret.is_available
        /\ call.ret.op_mode = call.args[1] - 2
        /\ call.ret.t_on = call.args[3]
        /\ call.ret.t_off = call.args[4]

\* C38 witness: t_on = 32768 and t_off = 65535, whose sum wraps to 32767
\* below t_on, were read back unchanged
C38_Witness ==
    /\ call.op = "timing_round_trip"
    /\ call.args[3] = 32768
    /\ call.args[4] = 65535
    /\ <<rx[6], rx[7]>> = <<127, 255>>
    /\ call.ret.t_on = 32768
    /\ call.ret.t_off = 65535

----------------------------------------------------------------------------
(* The write-ack register over the whole program (specification SpecMain) *)

\* the step is an apply: main's startup set_state or an update of a loop
IsApplyStep ==
    \/ IsLoopUpdate
    \/ pc \in {"main_start", "main_start_test"} /\ pc' \notin {"main_start", "main_start_test"}

\* C34: an apply never reads the write-ack register: its transactions are
\* writes and delays only, and when all its writes are accepted it returns
\* success and records its target; the only operation of the program that
\* reads the register is turn_off_all_leds.
C34_AckReadOnlyAtTurnOffAll ==
    [][ /\ IsApplyStep =>
              /\ \A i \in 1..Len(trace') : trace'[i].k \in {"write", "usleep"}
              /\ ~AnyWriteFailed(trace') =>
                     call'.ret = TRUE /\ _current_state' = Target(call')
        /\ ByteReads(trace') # <<>> => call'.op = "turn_off_all_leds" ]_vars

\* C34 witness: an update of the loop wrote all four LEDs, no transaction of
\* it was a read, and the new state was recorded
C34_Witness ==
    /\ pc = "loop"
    /\ call.op = "update_leds"
    /\ call.ret = TRUE
    /\ Len(Writes(trace)) = 8
    /\ ByteReads(trace) = <<>>
    /\ _current_state = "NETDEV_GREEN"
    /\ g_running = 1

----------------------------------------------------------------------------
(* Leaving the polling phase (specifications SpecExit and SpecMain) *)

MaxExitPolls == 1

\* the whole program on an idle link, or with counters that cannot be read
ExitInitialize == initialize_monitor(PollNetSamples)

ExitSample == sample_in_loop(PollNetSamples, MaxExitPolls)

\* the steps of the program itself, as opposed to the arrival of a signal
ExitProgress ==
    \/ Startup
    \/ ExitInitialize
    \/ ExitSample
    \/ MainUpdate
    \/ NormalInvalid
    \/ NormalCompleted
    \/ TestUpdate
    \/ TestCompleted
    \/ Shutdown

NextExit == ExitProgress \/ Signal

SpecExit == InitMain /\ [][NextExit]_vars

\* how far a location of main is from the return of main
Rank(l) ==
    CASE l \in {"main_start", "main_start_test"} -> 5
      [] l = "normal_start" -> 4
      [] l = "sampled" -> 3
      [] l \in {"loop", "test_loop"} -> 2
      [] l = "exited" -> 1
      [] OTHER -> 0

-----------------------------------------------------------------------------
(* Several instances started together (specification SpecInstances) *)

MaxProcs == 3

\* the process ids of the instances being started
Procs == 1..MaxProcs

InitInstances ==
    /\ _current_state = "UTILIZATION_OFF"
    /\ _brightness = DEFAULT_BRIGHTNESS
    /\ _low_threshold = 10
    /\ _medium_threshold = 40
    /\ _high_threshold = 80
    /\ rx = <<>>
    /\ pc = [p \in Procs |-> "unstarted"]
    /\ call = [p \in Procs |-> [op |-> "is_already_running", args |-> <<1>>, ret |-> FALSE]]
    /\ trace = <<>>
    /\ NoMonitor

\* process p reaches the first line of main
Exec(p) ==
    /\ pc[p] = "unstarted"
    /\ pc' = [pc EXCEPT ![p] = "main"]
    /\ UNCHANGED <<_current_state, cfg, rx, call, trace, mon, clock, calls, loop, prog>>

\* one step of is_already_running in process p: opendir, which may fail, or
\* one iteration of the readdir loop on the entry args[1]. The comm and
\* cmdline comparisons find this program's name in every other process from
\* its exec until it is gone, whatever that process has decided.
is_already_running(p) ==
    /\ pc[p] \in {"main", "readdir"}
    /\ \/ /\ pc[p] = "main"
          /\ \/ /\ pc' = [pc EXCEPT ![p] = "readdir"]
                /\ call' = [call EXCEPT ![p].args = <<1>>]
             \/ /\ pc' = [pc EXCEPT ![p] = "running"]
                /\ call' = [call EXCEPT ![p].ret = FALSE]
       \/ /\ pc[p] = "readdir"
          /\ LET entry == call[p].args[1] IN
             IF entry > MaxProcs
               THEN /\ pc' = [pc EXCEPT ![p] = "running"]
                    /\ call' = [call EXCEPT ![p].ret = FALSE]
               ELSE IF entry = p \/ pc[entry] \in {"unstarted", "exited"}
                      THEN /\ call' = [call EXCEPT ![p].args = <<entry + 1>>]
                           /\ UNCHANGED pc
                      ELSE /\ pc' = [pc EXCEPT ![p] = "rejected"]
                           /\ call' = [call EXCEPT ![p].ret = TRUE]
    /\ UNCHANGED <<_current_state, cfg, rx, trace, mon, clock, calls, loop, prog>>

\* if (is_already_running()) { ...; return 1; }
main_return(p) ==
    /\ pc[p] = "rejected"
    /\ pc' = [pc EXCEPT ![p] = "exited"]
    /\ UNCHANGED <<_current_state, cfg, rx, call, trace, mon, clock, calls, loop, prog>>

NextInstances == \E p \in Procs : Exec(p) \/ is_already_running(p) \/ main_return(p)

SpecInstances == InitInstances /\ [][NextInstances]_vars

\* C36 as stated: at most one of the processes started together passes the
\* is_already_running check, and once all of them have decided at least
\* one has passed.
C36_OneInstance ==
    /\ Cardinality({p \in Procs : pc[p] = "running"}) <= 1
    /\ (\A p \in Procs : pc[p] \in {"running", "exited"})
          => \E p \in Procs : pc[p] = "running"

====
